---- MODULE Spec2Model ----
(***************************************************************************)
(* Slug resolution and navigation of the documentation site, and its      *)
(* smaller parts: version statuses, the home page's version switch, the   *)
(* navigation service, the version comparison and the text diff.          *)
(*                                                                         *)
(* Strings are sequences of tokens.  A token is a single separator         *)
(* character ("_", " ", "TAB", "-", "/"), a maximal run of digits ("02"),  *)
(* a maximal run of letters ("User"), a fixed text ("/docs/", a section    *)
(* title) or one of the atomic suffixes ".md", ".MD", ".txt".              *)
(* Every string operation of the source used here                          *)
(* (replace of one character, trim, toLowerCase, replace of whitespace     *)
(* runs, endsWith(".md"), replace(/\.md$/), join) acts on whole tokens, so *)
(* the token view computes what the character view computes.               *)
(* The file system is case sensitive (names are looked up exactly).        *)
(***************************************************************************)
EXTENDS Integers, Sequences, FiniteSets, TLC

VARIABLES
    input,      \* the argument of the pure function under study (slugify: a string)
    output,     \* its result (<<"unset">> before the call)
    again,      \* slugify: slugify(output) (<<"unset">> before the call)
    fs,         \* the listing of <cwd>/docs: a sequence of nodes in readdir order
    req,        \* the slug path of the page request served last (<<>> when idle)
    out,        \* what DocPage did for req
    home,       \* HomeClient: its React state and the fetches in flight
    service,    \* NavigationService: its fields and the init() calls under way
    diff        \* diffText: the locals of a call in progress

vars == <<input, output, again, fs, req, out, home, service, diff>>

----------------------------------------------------------------------------
(* Bounds *)

\* longest input string of the slugify specification, in tokens
MaxLen == 4
\* most nodes (directories and files) below docs
MaxNodes == 4
\* most front-matter pointers (next, prev, uiLink) the files of a tree define
MaxPointers == 2

----------------------------------------------------------------------------
(* Strings *)

WhiteSpace == {" ", "TAB"}

IsSpace(c) == c \in WhiteSpace

\* String.prototype.toLowerCase, token by token
LowerTok(c) ==
    CASE c = "A" -> "a"
      [] c = "B" -> "b"
      [] c = "V1" -> "v1"
      [] c = ".MD" -> ".md"
      [] c = "User" -> "user"
      [] c = "Guide" -> "guide"
      [] c = "Ref" -> "ref"
      [] c = "Overview" -> "overview"
      [] c = "GRA" -> "gra"
      [] c = "Core" -> "core"
      [] c = "Platform" -> "platform"
      [] c = "Introduction" -> "introduction"
      [] c = "API" -> "api"
      [] c = "Reference" -> "reference"
      [] c = "Examples" -> "examples"
      [] c = "Tutorials" -> "tutorials"
      [] c = "Development" -> "development"
      [] c = "GCP" -> "gcp"
      [] c = "Feature" -> "feature"
      [] c = "InDepth" -> "indepth"
      [] OTHER -> c

UpperToks ==
    {"A", "B", "V1", ".MD", "User", "Guide", "Ref", "Overview", "GRA", "Core",
     "Platform", "Introduction", "API", "Reference", "Examples", "Tutorials",
     "Development", "GCP", "Feature", "InDepth"}

\* .replace(/_/g, " ")
ReplaceUnderscores(s) == [i \in 1..Len(s) |-> IF s[i] = "_" THEN " " ELSE s[i]]

RECURSIVE TrimStart(_)
TrimStart(s) ==
    IF s # <<>> /\ IsSpace(Head(s)) THEN TrimStart(Tail(s)) ELSE s

RECURSIVE TrimEnd(_)
TrimEnd(s) ==
    IF s # <<>> /\ IsSpace(s[Len(s)]) THEN TrimEnd(SubSeq(s, 1, Len(s) - 1)) ELSE s

\* .trim()
Trim(s) == TrimEnd(TrimStart(s))

\* .toLowerCase()
ToLowerCase(s) == [i \in 1..Len(s) |-> LowerTok(s[i])]

\* .replace(/\s+/g, "-"): scanning left to right, a whitespace token that
\* follows a whitespace token belongs to the match already replaced
RECURSIVE ReplaceSpaceRuns(_, _)
ReplaceSpaceRuns(s, inRun) ==
    IF s = <<>> THEN <<>>
    ELSE IF IsSpace(Head(s))
         THEN (IF inRun THEN <<>> ELSE <<"-">>) \o ReplaceSpaceRuns(Tail(s), TRUE)
         ELSE <<Head(s)>> \o ReplaceSpaceRuns(Tail(s), FALSE)

\* whitespace runs replaced before the underscores become spaces
MutSlugifyOrder(s) == ReplaceUnderscores(ReplaceSpaceRuns(ToLowerCase(Trim(s)), FALSE))

\* /\s/g instead of /\s+/g: one hyphen per whitespace character
MutSlugifyEverySpace(s) ==
    LET t == ToLowerCase(Trim(ReplaceUnderscores(s)))
    IN  [i \in 1..Len(t) |-> IF IsSpace(t[i]) THEN "-" ELSE t[i]]

slugify(s) == ReplaceSpaceRuns(ToLowerCase(Trim(ReplaceUnderscores(s))), FALSE)

----------------------------------------------------------------------------
(* The slugify specification: every string of at most MaxLen tokens over   *)
(* SlugAlphabet is handed to slugify, and a result is handed back to it.   *)

SlugAlphabet == {"a", "A", "_", " ", "TAB", "-", "01"}

RECURSIVE StringsUpTo(_)
StringsUpTo(n) ==
    IF n = 0 THEN {<<>>}
    ELSE LET shorter == StringsUpTo(n - 1)
         IN  shorter \cup {Append(s, c) : s \in {t \in shorter : Len(t) = n - 1},
                                         c \in SlugAlphabet}

NoResult == <<"unset">>

SlugInit ==
    /\ input \in StringsUpTo(MaxLen)
    /\ output = NoResult
    /\ again = NoResult
    /\ fs = <<>>
    /\ req = <<>>
    /\ out = [kind |-> "idle"]
    /\ home = <<>>
    /\ service = <<>>
    /\ diff = <<>>

\* a caller calls slugify(input)
CallSlugify ==
    /\ output = NoResult
    /\ output' = slugify(input)
    /\ UNCHANGED <<input, again, fs, req, out, home, service, diff>>

\* a caller hands the result back: slugify(slugify(input))
CallSlugifyAgain ==
    /\ output # NoResult
    /\ again = NoResult
    /\ again' = slugify(output)
    /\ UNCHANGED <<input, output, fs, req, out, home, service, diff>>

SlugNext == CallSlugify \/ CallSlugifyAgain

SlugSpec == SlugInit /\ [][SlugNext]_vars

\* ---- the reference transform of C3, computed word by word ----

\* the words of s: its maximal runs of tokens that are neither whitespace
\* nor an underscore, in order
RECURSIVE WordsOf(_, _)
WordsOf(s, cur) ==
    IF s = <<>> THEN (IF cur = <<>> THEN <<>> ELSE <<cur>>)
    ELSE IF IsSpace(Head(s)) \/ Head(s) = "_"
         THEN (IF cur = <<>> THEN <<>> ELSE <<cur>>) \o WordsOf(Tail(s), <<>>)
         ELSE WordsOf(Tail(s), Append(cur, Head(s)))

RECURSIVE HyphenJoin(_)
HyphenJoin(ws) ==
    IF ws = <<>> THEN <<>>
    ELSE IF Len(ws) = 1 THEN ws[1]
    ELSE ws[1] \o <<"-">> \o HyphenJoin(Tail(ws))

ReferenceSlug(s) == ToLowerCase(HyphenJoin(WordsOf(s, <<>>)))

IsString(s) == s \in Seq(SlugAlphabet \cup {LowerTok(c) : c \in SlugAlphabet})

\* C2: slugify is total and idempotent: every call returns a string, and
\* slugify(slugify(s)) = slugify(s) for every input s.
C2_SlugifyIdempotent ==
    /\ (output # NoResult => IsString(output))
    /\ (again # NoResult => IsString(again) /\ again = output)

C2_Witness == again # NoResult /\ output # input /\ Len(output) >= 3

\* C3: slugify(name) is the reference transform (underscores to spaces,
\* trimmed, lowercased, each maximal whitespace run one hyphen); its output
\* holds no underscore, no whitespace and no upper-case letter, and a
\* numeric prefix such as 01_ before a word is kept as 01-.
C3_SlugifyReference ==
    output # NoResult =>
        /\ output = ReferenceSlug(input)
        /\ \A i \in 1..Len(output) :
               output[i] # "_" /\ ~IsSpace(output[i]) /\ output[i] \notin UpperToks
        /\ (Len(input) >= 3 /\ input[1] = "01" /\ input[2] = "_"
              /\ (\E i \in 3..Len(input) : ~IsSpace(input[i]) /\ input[i] # "_")
            => Len(output) >= 3 /\ output[1] = "01" /\ output[2] = "-")

C3_Witness ==
    /\ output # NoResult
    /\ Len(input) = 4 /\ input[1] = "01" /\ input[2] = "_" /\ input[3] = " "
    /\ input[4] = "A"
    /\ output = <<"01", "-", "a">>

----------------------------------------------------------------------------
(* The file system below <cwd>/docs                                        *)
(*                                                                         *)
(* A node is a directory or a file.  fs is the listing of docs; the        *)
(* children of a directory are in the order readdir returns them, which    *)
(* is any order.  A directory that is not readable makes readdir reject    *)
(* (EACCES, or ENOENT when it was removed after its parent was listed).    *)
(* next is the front-matter value `next` of a file (<<>> when absent).     *)
(* A markdown file may carry more of its content as further fields: the    *)
(* front-matter keys title, prev and uiLink, heading (the trimmed text of  *)
(* the first `# ` line of the body) and malformed (the front-matter block  *)
(* is not valid YAML).  A key the file does not define is not a field of   *)
(* its record.                                                             *)

Dir(name, readable, children) ==
    [name |-> name, type |-> "dir", readable |-> readable, children |-> children,
     next |-> <<>>]

File(name, next) ==
    [name |-> name, type |-> "file", readable |-> TRUE, children |-> <<>>,
     next |-> next]

\* front-matter values: <<>> is undefined (or null); the empty string is
\* written with one empty token; NonString is a truthy value that is not a
\* string (a number, true, a list)
EmptyString == <<"">>

NonString == <<"{number}">>

\* the value is truthy: if (data.next)
Truthy(v) == v # <<>> /\ v # EmptyString

\* typeof v === "string", for a truthy v
IsStringValue(v) == v # NonString

\* data[key] of a file's parsed front matter (and the body's first heading):
\* undefined when the file does not define the key
Get(data, key) == IF key \in DOMAIN data THEN data[key] ELSE <<>>

\* the file with one more key defined (or redefined)
With(file, key, v) ==
    [k \in DOMAIN file \cup {key} |-> IF k = key THEN v ELSE file[k]]

\* the file without the key
Without(file, key) == [k \in DOMAIN file \ {key} |-> file[k]]

VersionNames == {<<"v1">>, <<"V1">>}

UserGuideName == <<"02", "_", "User", " ", "Guide">>

FolderNames == {UserGuideName, <<"02", "_", "user", "_", "guide">>, <<"10", "_", "Ref">>}

FeatureCardMarker == "feature-card:"

\* the documents and other files authors write: a name and the front-matter
\* value `next`
Documents ==
    {File(<<"overview", ".md">>, <<>>),
     File(<<"overview", ".md">>, <<FeatureCardMarker, "user-guide">>),
     File(<<"Overview", ".md">>, <<>>),
     File(<<"a", ".md">>, <<>>),
     File(<<"a", ".txt">>, <<>>)}

\* nullable values: <<>> is null, <<v>> is the value v
Null == <<>>

Some(v) == <<v>>

\* a rejected promise / thrown error, and a fulfilled one
Throw == [err |-> TRUE, val |-> Null]

Return(v) == [err |-> FALSE, val |-> v]

RECURSIVE CountNodes(_)
CountNodes(nodes) ==
    IF nodes = <<>> THEN 0
    ELSE 1 + CountNodes(Head(nodes).children) + CountNodes(Tail(nodes))

\* index of the first TRUE of a sequence of booleans, 0 when there is none:
\* Array.prototype.find / findIndex over the predicate's values
FindFirst(hits) ==
    IF \E i \in 1..Len(hits) : hits[i]
    THEN CHOOSE i \in 1..Len(hits) : hits[i] /\ \A j \in 1..(i - 1) : ~hits[j]
    ELSE 0

\* fs.readdir(path.join(<cwd>/docs, ...path)): the listing, or a rejection
RECURSIVE ReadDirFrom(_, _)
ReadDirFrom(entries, path) ==
    IF path = <<>> THEN Return(entries)
    ELSE LET i == FindFirst([ix \in 1..Len(entries) |->
                                entries[ix].name = Head(path)])
         IN  IF i = 0 \/ entries[i].type # "dir" \/ ~entries[i].readable
             THEN Throw
             ELSE ReadDirFrom(entries[i].children, Tail(path))

readdir(path) == ReadDirFrom(fs, path)

\* the node at a path (the path names an existing node)
RECURSIVE NodeAtFrom(_, _)
NodeAtFrom(entries, path) ==
    LET i == FindFirst([ix \in 1..Len(entries) |-> entries[ix].name = Head(path)])
    IN  IF Len(path) = 1 THEN entries[i]
        ELSE NodeAtFrom(entries[i].children, Tail(path))

\* name.endsWith(".md")
EndsWithMd(name) == name # <<>> /\ name[Len(name)] = ".md"

\* name.replace(/\.md$/, "")
StripMd(name) == IF EndsWithMd(name) THEN SubSeq(name, 1, Len(name) - 1) ELSE name

\* parts.join(sep)
RECURSIVE Join(_, _)
Join(parts, sep) ==
    IF parts = <<>> THEN <<>>
    ELSE IF Len(parts) = 1 THEN parts[1]
    ELSE parts[1] \o <<sep>> \o Join(Tail(parts), sep)

----------------------------------------------------------------------------
(* app/docs/[...slug]/page.tsx *)

\* the directory loop of findMatchingFilePath, then its final lookup;
\* dir is the path of currentDir below docs, entries its listing
RECURSIVE MatchFrom(_, _, _)
MatchFrom(entries, dir, parts) ==
    IF Len(parts) > 1
    THEN LET i == FindFirst([ix \in 1..Len(entries) |->
                                /\ entries[ix].type = "dir"
                                /\ slugify(entries[ix].name) = Head(parts)])
         IN  IF i = 0 THEN Return(Null)
             ELSE IF ~entries[i].readable THEN Throw
             ELSE MatchFrom(entries[i].children, Append(dir, entries[i].name),
                            Tail(parts))
    ELSE LET i == FindFirst([ix \in 1..Len(entries) |->
                                /\ entries[ix].type = "file"
                                /\ EndsWithMd(ToLowerCase(entries[ix].name))
                                /\ slugify(StripMd(entries[ix].name)) = slugify(parts[1])])
         IN  IF i = 0 THEN Return(Null) ELSE Return(Append(dir, entries[i].name))

\* index of the last TRUE of a sequence of booleans, 0 when there is none
FindLast(hits) ==
    IF \E i \in 1..Len(hits) : hits[i]
    THEN CHOOSE i \in 1..Len(hits) : hits[i] /\ \A j \in (i + 1)..Len(hits) : ~hits[j]
    ELSE 0

\* the last matching entry of a listing is taken instead of the first
RECURSIVE MutMatchLast(_, _, _)
MutMatchLast(entries, dir, parts) ==
    IF Len(parts) > 1
    THEN LET i == FindLast([ix \in 1..Len(entries) |->
                               /\ entries[ix].type = "dir"
                               /\ slugify(entries[ix].name) = Head(parts)])
         IN  IF i = 0 THEN Return(Null)
             ELSE IF ~entries[i].readable THEN Throw
             ELSE MutMatchLast(entries[i].children, Append(dir, entries[i].name),
                               Tail(parts))
    ELSE LET i == FindLast([ix \in 1..Len(entries) |->
                               /\ entries[ix].type = "file"
                               /\ EndsWithMd(ToLowerCase(entries[ix].name))
                               /\ slugify(StripMd(entries[ix].name)) = slugify(parts[1])])
         IN  IF i = 0 THEN Return(Null) ELSE Return(Append(dir, entries[i].name))

MutFindMatchingFilePathLast(slugParts) == MutMatchLast(fs, <<>>, slugParts)

\* a segment without a matching directory is skipped instead of failing
RECURSIVE MutMatchSkip(_, _, _)
MutMatchSkip(entries, dir, parts) ==
    IF Len(parts) > 1
    THEN LET i == FindFirst([ix \in 1..Len(entries) |->
                                /\ entries[ix].type = "dir"
                                /\ slugify(entries[ix].name) = Head(parts)])
         IN  IF i = 0 THEN MutMatchSkip(entries, dir, Tail(parts))
             ELSE IF ~entries[i].readable THEN Throw
             ELSE MutMatchSkip(entries[i].children, Append(dir, entries[i].name),
                               Tail(parts))
    ELSE MatchFrom(entries, dir, parts)

MutFindMatchingFilePathSkip(slugParts) == MutMatchSkip(fs, <<>>, slugParts)

findMatchingFilePath(slugParts) == MatchFrom(fs, <<>>, slugParts)

\* keys every object literal inherits from Object.prototype: looked up in
\* sectionSlugMap they give a function, which is truthy and equals no slug
ObjectPrototypeKeys == {<<"constructor">>, <<"toString">>}

InheritedFunction == <<"[Function]">>

\* sectionSlugMap[sectionId]; <<>> stands for undefined
sectionSlugMap(sectionId) ==
    CASE sectionId = <<"platform-introduction">> ->
            slugify(<<"01", "_", "GRA", "_", "Core", "_", "Platform", " ", "Introduction">>)
      [] sectionId = <<"user-guide">> -> slugify(<<"02", "_", "User", " ", "Guide">>)
      [] sectionId = <<"api-reference">> -> slugify(<<"03", "_", "API", " ", "Reference">>)
      [] sectionId = <<"examples-tutorials">> ->
            slugify(<<"04", "_", "Examples", " ", "&", " ", "Tutorials">>)
      [] sectionId = <<"development-guide">> ->
            slugify(<<"05", "_", "Development", " ", "Guide">>)
      [] sectionId = <<"gcp-feature-in-depth">> ->
            slugify(<<"06", "_", "GCP", " ", "Feature", " ", "InDepth">>)
      [] sectionId \in ObjectPrototypeKeys -> InheritedFunction
      [] OTHER -> <<>>

\* sectionTitleMap[sectionId] || sectionId
sectionTitleMap(sectionId) ==
    CASE sectionId = <<"platform-introduction">> -> <<"GRA Core Platform Introduction">>
      [] sectionId = <<"user-guide">> -> <<"User Guide">>
      [] sectionId = <<"api-reference">> -> <<"API Reference">>
      [] sectionId = <<"examples-tutorials">> -> <<"Examples & Tutorials">>
      [] sectionId = <<"development-guide">> -> <<"Development Guide">>
      [] sectionId = <<"gcp-feature-in-depth">> -> <<"GCP Feature In-Depth">>
      [] OTHER -> sectionId

\* findFirstFileSlug(node, parentSlugs): Some(slug array) or Null
RECURSIVE findFirstFileSlug(_, _)
RECURSIVE FirstInChildren(_, _)
findFirstFileSlug(node, parentSlugs) ==
    IF node.type = "file"
    THEN Some(Append(parentSlugs, slugify(StripMd(node.name))))
    ELSE FirstInChildren(node.children, Append(parentSlugs, slugify(node.name)))

\* the for loop over node.children of findFirstFileSlug
FirstInChildren(children, slugs) ==
    IF children = <<>> THEN Null
    ELSE LET found == findFirstFileSlug(Head(children), slugs)
         IN  IF found # Null THEN found ELSE FirstInChildren(Tail(children), slugs)

\* findFolderNodeBySlug(nodes, slug): Some(node) or Null
findFolderNodeBySlug(nodes, slug) ==
    LET i == FindFirst([ix \in 1..Len(nodes) |->
                           nodes[ix].type = "folder" /\ slugify(nodes[ix].name) = slug])
    IN  IF i = 0 THEN Null ELSE Some(nodes[i])

Link(href, title) == [href |-> href, title |-> title]

\* the check of fileSlugArr left out: a folder without files gives a link
\* to the folder
MutResolveWithoutFileCheck(sectionId, selectedVersion, folderTree) ==
    LET folderSlug == sectionSlugMap(sectionId)
    IN  IF folderSlug = <<>> THEN Null
        ELSE LET folderNode == findFolderNodeBySlug(folderTree, folderSlug)
             IN  IF folderNode = Null THEN Null
                 ELSE LET fileSlugArr == findFirstFileSlug(folderNode[1], <<folderSlug>>)
                          segments == IF fileSlugArr = Null THEN <<folderSlug>>
                                      ELSE fileSlugArr[1]
                      IN  Some(Link(<<"/docs/">> \o selectedVersion \o <<"/">>
                                        \o Join(segments, "/"),
                                    sectionTitleMap(sectionId)))

\* resolveFeatureCardLink: Some({href, title}) or Null
resolveFeatureCardLink(sectionId, selectedVersion, folderTree) ==
    LET folderSlug == sectionSlugMap(sectionId)
    IN  IF folderSlug = <<>> THEN Null
        ELSE LET folderNode == findFolderNodeBySlug(folderTree, folderSlug)
             IN  IF folderNode = Null THEN Null
                 ELSE LET fileSlugArr == findFirstFileSlug(folderNode[1], <<folderSlug>>)
                      IN  IF fileSlugArr = Null THEN Null
                          ELSE Some(Link(<<"/docs/">> \o selectedVersion \o <<"/">>
                                            \o Join(fileSlugArr[1], "/"),
                                         sectionTitleMap(sectionId)))

\* every string is taken as a symbolic reference
MutResolvePointerAlwaysSymbolic(ref, generic, selectedVersion, folderTree) ==
    IF ~Truthy(ref) THEN Null
    ELSE IF IsStringValue(ref)
    THEN resolveFeatureCardLink(Tail(ref), selectedVersion, folderTree)
    ELSE Null

\* one front-matter pointer of getDocContent: ref is data.next, data.prev or
\* data.uiLink, generic the title of its call site
ResolvePointer(ref, generic, selectedVersion, folderTree) ==
    IF ~Truthy(ref) THEN Null
    ELSE IF IsStringValue(ref) /\ Head(ref) = FeatureCardMarker
    THEN resolveFeatureCardLink(Tail(ref), selectedVersion, folderTree)
    ELSE IF IsStringValue(ref) THEN Some(Link(ref, generic))
    ELSE Null

\* data.title || content.match(/^#\s+(.+)$/m)?.[1]?.trim() || slug[slug.length - 1]
TitleOf(data, slug) ==
    IF Truthy(Get(data, "title")) THEN Get(data, "title")
    ELSE IF Truthy(Get(data, "heading")) THEN Get(data, "heading")
    ELSE slug[Len(slug)]

\* getDocContent: the document record (Some) or null, or a rejection when
\* findMatchingFilePath rejects (it is called outside the try block).
\* matter(raw) throws on a front-matter block that is not valid YAML, inside
\* the try block.  file is the path of the file whose content the record
\* renders.
getDocContent(slug, folderTree, selectedVersion) ==
    LET filePath == findMatchingFilePath(slug)
    IN  IF filePath.err THEN Throw
        ELSE IF filePath.val = Null THEN Return(Null)
        ELSE LET data == NodeAtFrom(fs, filePath.val)
             IN  IF "malformed" \in DOMAIN data /\ data.malformed THEN Return(Null)
                 ELSE Return(Some(
                    [file |-> filePath.val,
                     title |-> TitleOf(data, slug),
                     nextPage |-> ResolvePointer(Get(data, "next"), <<"Next">>,
                                                 selectedVersion, folderTree),
                     previousPage |-> ResolvePointer(Get(data, "prev"), <<"Previous">>,
                                                     selectedVersion, folderTree),
                     uiLink |-> ResolvePointer(Get(data, "uiLink"), <<"UI Link">>,
                                               selectedVersion, folderTree)]))

\* walk(dir, parentSlugs) of getAllMarkdownSlugs over the listing of dir
RECURSIVE WalkSlugs(_, _, _)
WalkSlugs(entries, dir, parentSlugs) ==
    IF entries = <<>> THEN Return(<<>>)
    ELSE LET entry == Head(entries)
             fullPath == Append(dir, entry.name)
             here ==
                IF entry.type = "dir"
                THEN (IF ~entry.readable THEN Throw
                      ELSE WalkSlugs(entry.children, fullPath,
                                     Append(parentSlugs, slugify(entry.name))))
                ELSE IF EndsWithMd(entry.name)
                THEN Return(<<[slug |-> Append(parentSlugs, slugify(StripMd(entry.name))),
                               title |-> StripMd(entry.name),
                               filePath |-> fullPath]>>)
                ELSE Return(<<>>)
         IN  IF here.err THEN Throw
             ELSE LET rest == WalkSlugs(Tail(entries), dir, parentSlugs)
                  IN  IF rest.err THEN Throw ELSE Return(here.val \o rest.val)

getAllMarkdownSlugs(version) ==
    LET top == readdir(<<version>>)
    IN  IF top.err THEN Throw ELSE WalkSlugs(top.val, <<version>>, <<version>>)

\* allFiles.findIndex(f => f.slug.join("/") === slug.join("/")), 0 for -1
SlugIndex(allFiles, slug) ==
    FindFirst([ix \in 1..Len(allFiles) |->
                  Join(allFiles[ix].slug, "/") = Join(slug, "/")])

PageLink(f) == Link(<<"/docs/">> \o Join(f.slug, "/"), f.title)

\* the neighbours of the entry before the current one
MutNavigationOffByOne(slug) ==
    LET allFiles == getAllMarkdownSlugs(slug[1])
    IN  IF allFiles.err THEN Throw
        ELSE LET currentIdx == SlugIndex(allFiles.val, slug)
             IN  IF currentIdx = 0
                 THEN Return([previousPage |-> Null, nextPage |-> Null])
                 ELSE Return(
                    [previousPage |->
                        IF currentIdx > 2 THEN Some(PageLink(allFiles.val[currentIdx - 2]))
                        ELSE Null,
                     nextPage |->
                        IF currentIdx < Len(allFiles.val)
                        THEN Some(PageLink(allFiles.val[currentIdx]))
                        ELSE Null])

getPageNavigationChronological(slug) ==
    LET allFiles == getAllMarkdownSlugs(slug[1])
    IN  IF allFiles.err THEN Throw
        ELSE LET currentIdx == SlugIndex(allFiles.val, slug)
             IN  IF currentIdx = 0
                 THEN Return([previousPage |-> Null, nextPage |-> Null])
                 ELSE Return(
                    [previousPage |->
                        IF currentIdx > 1 THEN Some(PageLink(allFiles.val[currentIdx - 1]))
                        ELSE Null,
                     nextPage |->
                        IF currentIdx < Len(allFiles.val)
                        THEN Some(PageLink(allFiles.val[currentIdx + 1]))
                        ELSE Null])

TreeFolder(name, children) == [name |-> name, type |-> "folder", children |-> children]

TreeFile(name) == [name |-> name, type |-> "file", children |-> <<>>]

\* getFolderTree over the listing of dir: Promise.all keeps the order of
\* the entries, drops the nulls, and rejects when any readdir below rejects
RECURSIVE FolderTreeOf(_)
FolderTreeOf(entries) ==
    IF entries = <<>> THEN Return(<<>>)
    ELSE LET entry == Head(entries)
             here ==
                IF entry.type = "dir"
                THEN (IF ~entry.readable THEN Throw
                      ELSE LET sub == FolderTreeOf(entry.children)
                           IN  IF sub.err THEN Throw
                               ELSE Return(<<TreeFolder(entry.name, sub.val)>>))
                ELSE IF EndsWithMd(entry.name) THEN Return(<<TreeFile(entry.name)>>)
                ELSE Return(<<>>)
             rest == FolderTreeOf(Tail(entries))
         IN  IF here.err \/ rest.err THEN Throw ELSE Return(here.val \o rest.val)

getFolderTree(dir) ==
    LET entries == readdir(dir)
    IN  IF entries.err THEN Throw ELSE FolderTreeOf(entries.val)

----------------------------------------------------------------------------
(* components/sidebar.tsx *)

\* the number a run of digits stands for (localeCompare, numeric: true)
NumVal(c) ==
    CASE c = "01" -> 1
      [] c = "02" -> 2
      [] c = "10" -> 10
      [] OTHER -> 0

IsDigits(c) == c \in {"01", "02", "10"}

\* alphabetical rank of a word, case ignored
WordRank(c) ==
    CASE LowerTok(c) = "a" -> 1
      [] LowerTok(c) = "guide" -> 2
      [] LowerTok(c) = "overview" -> 3
      [] LowerTok(c) = "ref" -> 4
      [] LowerTok(c) = "user" -> 5
      [] OTHER -> 6

\* primary collation weight of a token: white space, then punctuation
\* (a suffix starts with "."), then digits by numeric value, then letters
PrimaryWeight(c) ==
    CASE c = " " -> 1
      [] c = "_" -> 2
      [] c = "-" -> 3
      [] LowerTok(c) = ".md" -> 10
      [] c = ".txt" -> 11
      [] IsDigits(c) -> 100 + NumVal(c)
      [] OTHER -> 1000 + WordRank(c)

\* a.localeCompare(b, undefined, { numeric: true }): -1, 0 or 1.  Primary
\* weights decide first; strings equal at that level are ordered by case,
\* lower case first.
localeCompare(a, b) ==
    LET n == IF Len(a) < Len(b) THEN Len(a) ELSE Len(b)
        Diff1 == {i \in 1..n : PrimaryWeight(a[i]) # PrimaryWeight(b[i])}
        Diff3 == {i \in 1..n : a[i] # b[i]}
        Min(S) == CHOOSE i \in S : \A k \in S : i <= k
    IN  IF Diff1 # {}
        THEN (IF PrimaryWeight(a[Min(Diff1)]) < PrimaryWeight(b[Min(Diff1)]) THEN -1 ELSE 1)
        ELSE IF Len(a) # Len(b) THEN (IF Len(a) < Len(b) THEN -1 ELSE 1)
        ELSE IF Diff3 # {}
        THEN (IF LowerTok(a[Min(Diff3)]) = a[Min(Diff3)] THEN -1 ELSE 1)
        ELSE 0

\* the comparator handed to navigation.sort
NavCompare(a, b) ==
    IF a.type = "folder" /\ b.type = "file" THEN -1
    ELSE IF a.type = "file" /\ b.type = "folder" THEN 1
    ELSE localeCompare(a.title, b.title)

\* navigation.sort(NavCompare): Array.prototype.sort is stable
RECURSIVE InsertSorted(_, _)
InsertSorted(x, sorted) ==
    IF sorted = <<>> THEN <<x>>
    ELSE IF NavCompare(x, Head(sorted)) < 0 THEN <<x>> \o sorted
    ELSE <<Head(sorted)>> \o InsertSorted(x, Tail(sorted))

RECURSIVE SortNav(_)
SortNav(items) ==
    IF items = <<>> THEN <<>>
    ELSE InsertSorted(items[Len(items)], SortNav(SubSeq(items, 1, Len(items) - 1)))

\* folder names enter the path as they are named on disk
RECURSIVE MutConvertTreeToNavRawFolders(_, _, _)
MutConvertTreeToNavRawFolders(nodes, parentPath, version) ==
    [i \in 1..Len(nodes) |->
        IF nodes[i].type = "folder"
        THEN [title |-> nodes[i].name, type |-> "folder", href |-> <<>>,
              items |-> MutConvertTreeToNavRawFolders(nodes[i].children,
                                         Append(parentPath, nodes[i].name),
                                         version)]
        ELSE [title |-> StripMd(nodes[i].name), type |-> "file",
              href |-> <<"/docs/">> \o version \o <<"/">>
                       \o Join(Append(parentPath, slugify(StripMd(nodes[i].name))), "/"),
              items |-> <<>>]]

\* convertTreeToNav(nodes, parentPath); href is <<>> for a folder
RECURSIVE convertTreeToNav(_, _, _)
convertTreeToNav(nodes, parentPath, version) ==
    [i \in 1..Len(nodes) |->
        IF nodes[i].type = "folder"
        THEN [title |-> nodes[i].name, type |-> "folder", href |-> <<>>,
              items |-> convertTreeToNav(nodes[i].children,
                                         Append(parentPath, slugify(nodes[i].name)),
                                         version)]
        ELSE [title |-> StripMd(nodes[i].name), type |-> "file",
              href |-> <<"/docs/">> \o version \o <<"/">>
                       \o Join(Append(parentPath, slugify(StripMd(nodes[i].name))), "/"),
              items |-> <<>>]]

\* the navigation the Sidebar renders: navigation.sort(...) orders the top
\* level; NavigationItem maps item.items as they are
Sidebar(folderTree, version) ==
    SortNav(convertTreeToNav(folderTree, <<>>, version))

----------------------------------------------------------------------------
(* DocPage (app/docs/[...slug]/page.tsx) *)

NoPage(kind) ==
    [kind |-> kind, tree |-> <<>>, doc |-> Null, previousPage |-> Null,
     nextPage |-> Null, sidebar |-> <<>>]

\* the chronological neighbour goes before the front-matter pointer
MutDocPageNeighbourFirst(slug) ==
    LET selectedVersion == slug[1]
        folderTree == getFolderTree(<<selectedVersion>>)
    IN  IF folderTree.err THEN NoPage("error")
        ELSE LET doc == getDocContent(slug, folderTree.val, selectedVersion)
             IN  IF doc.err THEN NoPage("error")
                 ELSE IF doc.val = Null THEN NoPage("notFound")
                 ELSE LET auto == getPageNavigationChronological(slug)
                      IN  IF auto.err THEN NoPage("error")
                          ELSE [kind |-> "page",
                                tree |-> folderTree.val,
                                doc |-> doc.val,
                                previousPage |-> IF auto.val.previousPage # Null
                                                 THEN auto.val.previousPage
                                                 ELSE doc.val[1].previousPage,
                                nextPage |-> IF auto.val.nextPage # Null
                                             THEN auto.val.nextPage
                                             ELSE doc.val[1].nextPage,
                                sidebar |-> Sidebar(folderTree.val, selectedVersion)]

\* DocPage: "error" is an uncaught rejection, "notFound" is notFound(),
\* "page" the rendered page with the props handed to Sidebar and
\* PageNavigation (doc.previousPage ?? autoPrev, doc.nextPage ?? autoNext)
DocPage(slug) ==
    LET selectedVersion == slug[1]
        folderTree == getFolderTree(<<selectedVersion>>)
    IN  IF folderTree.err THEN NoPage("error")
        ELSE LET doc == getDocContent(slug, folderTree.val, selectedVersion)
             IN  IF doc.err THEN NoPage("error")
                 ELSE IF doc.val = Null THEN NoPage("notFound")
                 ELSE LET auto == getPageNavigationChronological(slug)
                      IN  IF auto.err THEN NoPage("error")
                          ELSE [kind |-> "page",
                                tree |-> folderTree.val,
                                doc |-> doc.val,
                                previousPage |-> IF doc.val[1].previousPage # Null
                                                 THEN doc.val[1].previousPage
                                                 ELSE auto.val.previousPage,
                                nextPage |-> IF doc.val[1].nextPage # Null
                                             THEN doc.val[1].nextPage
                                             ELSE auto.val.nextPage,
                                sidebar |-> Sidebar(folderTree.val, selectedVersion)]

----------------------------------------------------------------------------
(* fetchVersionsWithStatus (lib/version-status.ts) *)
(* A release date is a day 1..MaxDate, today a day 0..MaxDate; a version  *)
(* is named by its place in versions.json.                                *)

\* latest release date of versions.json
MaxDate == 3

\* most versions in versions.json
MaxVersions == 3

\* one step of the stable sort with (a, b) => date(a) - date(b): x goes
\* before the first entry it compares below
RECURSIVE InsertByDate(_, _)
InsertByDate(x, sorted) ==
    IF sorted = <<>> THEN <<x>>
    ELSE IF x.releaseDate - Head(sorted).releaseDate < 0 THEN <<x>> \o sorted
    ELSE <<Head(sorted)>> \o InsertByDate(x, Tail(sorted))

\* [...data].sort(...)
RECURSIVE SortByDate(_)
SortByDate(data) ==
    IF data = <<>> THEN <<>>
    ELSE InsertByDate(data[Len(data)], SortByDate(SubSeq(data, 1, Len(data) - 1)))

\* the loop from i down to the first entry released by today; 0 is the
\* source's -1 (indices count from 1 here)
RECURSIVE CurrentIdx(_, _, _)
CurrentIdx(sorted, today, i) ==
    IF i = 0 THEN 0
    ELSE IF sorted[i].releaseDate <= today THEN i
    ELSE CurrentIdx(sorted, today, i - 1)

\* a release of today does not count as released
MutFetchVersionsBeforeToday(data, today) ==
    LET sorted == SortByDate(data)
        currentIdx == CurrentIdx(sorted, today - 1, Len(sorted))
        developmentIdx == currentIdx + 1
    IN  [idx \in 1..Len(sorted) |->
            [version |-> sorted[idx].version,
             releaseDate |-> sorted[idx].releaseDate,
             status |-> IF idx = currentIdx THEN "current"
                        ELSE IF idx = developmentIdx THEN "development"
                        ELSE IF idx < currentIdx THEN "previous"
                        ELSE "future"]]

\* fetchVersionsWithStatus, for the content data of versions.json on day
\* today
fetchVersionsWithStatus(data, today) ==
    LET sorted == SortByDate(data)
        currentIdx == CurrentIdx(sorted, today, Len(sorted))
        developmentIdx == currentIdx + 1
    IN  [idx \in 1..Len(sorted) |->
            [version |-> sorted[idx].version,
             releaseDate |-> sorted[idx].releaseDate,
             status |-> IF idx = currentIdx THEN "current"
                        ELSE IF idx = developmentIdx THEN "development"
                        ELSE IF idx < currentIdx THEN "previous"
                        ELSE "future"]]

\* the contents versions.json can have
VersionFiles ==
    UNION {{[i \in 1..n |-> [version |-> i, releaseDate |-> dates[i]]] :
               dates \in [1..n -> 1..MaxDate]} : n \in 0..MaxVersions}

VersionsInit ==
    /\ input \in [data : VersionFiles, today : 0..MaxDate]
    /\ output = <<>>
    /\ again = NoResult
    /\ fs = <<>>
    /\ req = <<>>
    /\ out = [kind |-> "idle"]
    /\ home = <<>>
    /\ service = <<>>
    /\ diff = <<>>

\* useVersionsWithStatus: the state versions starts as [] (output) and is
\* set to what fetchVersionsWithStatus resolves to, once
CallFetchVersionsWithStatus ==
    /\ output = <<>>
    /\ output' = fetchVersionsWithStatus(input.data, input.today)
    /\ UNCHANGED <<input, again, fs, req, out, home, service, diff>>

VersionsNext == CallFetchVersionsWithStatus

VersionsSpec == VersionsInit /\ [][VersionsNext]_vars

----------------------------------------------------------------------------
(* HomeClient (components/HomeClient.tsx) *)
(* The sections and links of a version are named by the version; the      *)
(* fetches of one effect run (Promise.all) settle together.               *)

\* most effect runs whose fetches are in flight at once
MaxInFlight == 3

\* the props versions and initialVersion
HomeVersions == {"v1", "v2", "v3"}

initialVersion == "v1"

\* what the two endpoints serve for a version, and the props
\* initialSections and initialSeeAlso
SectionsOf(version) == <<"sections", version>>

SeeAlsoOf(version) == <<"links", version>>

\* the number of effect runs whose fetches have not settled
InFlight == home.fetches["v1"] + home.fetches["v2"] + home.fetches["v3"]

HomeInit ==
    /\ input = <<>>
    /\ output = NoResult
    /\ again = NoResult
    /\ fs = <<>>
    /\ req = <<>>
    /\ out = [kind |-> "idle"]
    /\ home = [selectedVersion |-> initialVersion,
               documentationSections |-> SectionsOf(initialVersion),
               seeAlsoLinks |-> SeeAlsoOf(initialVersion),
               loading |-> FALSE,
               error |-> Null,
               fetches |-> [v \in HomeVersions |-> 0]]
    /\ service = <<>>
    /\ diff = <<>>

\* the user picks another version in the Header: setSelectedVersion, the
\* render, and the effect that depends on selectedVersion
SelectVersion ==
    \E version \in HomeVersions \ {home.selectedVersion} :
        /\ IF version = initialVersion
           THEN home' = [home EXCEPT !.selectedVersion = version]
           ELSE /\ InFlight < MaxInFlight
                /\ home' = [home EXCEPT !.selectedVersion = version,
                                        !.loading = TRUE,
                                        !.error = Null,
                                        !.fetches[version] = @ + 1]
        /\ UNCHANGED <<input, output, again, fs, req, out, service, diff>>

\* both fetches of an effect run are fulfilled: .then, then .finally
FetchFulfilled ==
    \E version \in HomeVersions :
        /\ home.fetches[version] > 0
        /\ home' = [home EXCEPT !.documentationSections = SectionsOf(version),
                                !.seeAlsoLinks = SeeAlsoOf(version),
                                !.loading = FALSE,
                                !.fetches[version] = @ - 1]
        /\ UNCHANGED <<input, output, again, fs, req, out, service, diff>>

\* one of the fetches of an effect run is rejected: .catch, then .finally
FetchRejected ==
    \E version \in HomeVersions :
        /\ home.fetches[version] > 0
        /\ home' = [home EXCEPT !.error = Some(<<"Failed to fetch data">>),
                                !.loading = FALSE,
                                !.fetches[version] = @ - 1]
        /\ UNCHANGED <<input, output, again, fs, req, out, service, diff>>

HomeNext == SelectVersion \/ FetchFulfilled \/ FetchRejected

HomeSpec == HomeInit /\ [][HomeNext]_vars

----------------------------------------------------------------------------
(* NavigationService (lib/navigation-service) *)
(* A navigation item is its id, its type and its children; a              *)
(* configuration is the record of its keys, of which only navigation is   *)
(* read here.  navigation.config.json stays as it is while init() calls   *)
(* are under way.                                                         *)

\* most init() calls of one process
MaxCalls == 3

Calls == 1..MaxCalls

Item(id, type, children) == [id |-> id, type |-> type, children |-> children]

\* defaultNavigationConfig, with the first two of its six folders
defaultNavigationConfig ==
    [title |-> <<"GCP 5.7 Documentation">>,
     navigation |->
        <<Item("getting-started", "folder",
               <<Item("introduction", "file", <<>>), Item("quick-start", "file", <<>>)>>),
          Item("user-guide", "folder",
               <<Item("user-guide-overview", "file", <<>>)>>)>>]

\* what navigation.config.json can be: missing, not JSON, an object
\* without the key navigation, or an object with a navigation (empty, flat,
\* nested with links and folders among the files, a file with children)
ConfigFiles ==
    {[kind |-> "missing", json |-> <<>>],
     [kind |-> "invalid", json |-> <<>>],
     [kind |-> "json", json |-> [title |-> <<"Docs">>]],
     [kind |-> "json", json |-> [navigation |-> <<>>]],
     [kind |-> "json", json |-> [navigation |->
        <<Item("a", "file", <<>>), Item("l", "link", <<>>), Item("b", "file", <<>>)>>]],
     [kind |-> "json", json |-> [title |-> <<"Docs">>, navigation |->
        <<Item("f", "folder",
               <<Item("b", "file", <<>>),
                 Item("g", "folder", <<Item("c", "file", <<>>)>>)>>),
          Item("a", "file", <<Item("d", "file", <<>>)>>)>>]]}

\* { ...defaultNavigationConfig, ...JSON.parse(raw) }
Spread(base, over) ==
    [k \in DOMAIN base \cup DOMAIN over |-> IF k \in DOMAIN over THEN over[k] ELSE base[k]]

\* walk(items) of flatten, pushing onto flatItems
RECURSIVE Walk(_, _)
Walk(items, flatItems) ==
    IF items = <<>> THEN flatItems
    ELSE LET it == Head(items)
             pushed == IF it.type = "file" THEN Append(flatItems, it) ELSE flatItems
         IN  Walk(Tail(items),
                  IF it.children # <<>> THEN Walk(it.children, pushed) ELSE pushed)

\* flatItems is not emptied before the walk
MutFlattenWithoutReset(s) == Walk(s.config.navigation, s.flatItems)

\* flatten(): the new flatItems of the service s
flatten(s) == Walk(s.config.navigation, <<>>)

ServiceInit ==
    /\ input = <<>>
    /\ output = NoResult
    /\ again = NoResult
    /\ fs = <<>>
    /\ req = <<>>
    /\ out = [kind |-> "idle"]
    /\ home = <<>>
    /\ \E file \in ConfigFiles :
          service = [cfgFile |-> file,
                     config |-> defaultNavigationConfig,
                     flatItems |-> <<>>,
                     ready |-> FALSE,
                     pc |-> [c \in Calls |-> "idle"]]
    /\ diff = <<>>

\* a caller calls init(): it returns at once when ready, and otherwise runs
\* into loadConfig up to its await of fs.readFile
CallInit ==
    \E c \in Calls :
        /\ service.pc[c] = "idle"
        /\ service' = [service EXCEPT !.pc[c] = IF service.ready THEN "returnedEarly"
                                                ELSE "reading"]
        /\ UNCHANGED <<input, output, again, fs, req, out, home, diff>>

\* fs.readFile settles for a call: loadConfig assigns the configuration, or
\* keeps it when the read or JSON.parse fails, and returns
ReadSettles ==
    \E c \in Calls :
        /\ service.pc[c] = "reading"
        /\ service' = [service EXCEPT
              !.config = IF service.cfgFile.kind = "json"
                         THEN Spread(defaultNavigationConfig, service.cfgFile.json)
                         ELSE @,
              !.pc[c] = "loaded"]
        /\ UNCHANGED <<input, output, again, fs, req, out, home, diff>>

\* init() goes on after `await this.loadConfig()`: flatten(), ready = true
Flatten ==
    \E c \in Calls :
        /\ service.pc[c] = "loaded"
        /\ service' = [service EXCEPT !.flatItems = flatten(service),
                                      !.ready = TRUE,
                                      !.pc[c] = "returned"]
        /\ UNCHANGED <<input, output, again, fs, req, out, home, diff>>

ServiceNext == CallInit \/ ReadSettles \/ Flatten

ServiceSpec == ServiceInit /\ [][ServiceNext]_vars

----------------------------------------------------------------------------
(* GET /api/compare-versions (app/api/compare-versions/route.ts) *)

\* items.filter(i => i.isDirectory()).map(i => i.name)
RECURSIVE DirectoryNames(_)
DirectoryNames(items) ==
    IF items = <<>> THEN <<>>
    ELSE (IF Head(items).type = "dir" THEN <<Head(items).name>> ELSE <<>>)
         \o DirectoryNames(Tail(items))

\* getFolderDocs(version): rejects when docs/<version> cannot be read
getFolderDocs(version) ==
    LET items == readdir(<<version>>)
    IN  IF items.err THEN Throw ELSE Return(DirectoryNames(items.val))

\* list.includes(x)
Includes(list, x) == \E i \in 1..Len(list) : list[i] = x

\* docs.filter(x => other.includes(x) = keep)
RECURSIVE FilterIncluded(_, _, _)
FilterIncluded(docs, other, keep) ==
    IF docs = <<>> THEN <<>>
    ELSE (IF Includes(other, Head(docs)) = keep THEN <<Head(docs)>> ELSE <<>>)
         \o FilterIncluded(Tail(docs), other, keep)

Response(status, added, removed, unchanged) ==
    [status |-> status, added |-> added, removed |-> removed, unchanged |-> unchanged]

\* removed is all of docs1
MutCompareRemovedUnfiltered(v1, v2) ==
    IF v1 = <<>> \/ v2 = <<>> THEN Response(400, <<>>, <<>>, <<>>)
    ELSE LET docs1 == getFolderDocs(v1)
             docs2 == getFolderDocs(v2)
         IN  IF docs1.err \/ docs2.err THEN Response(500, <<>>, <<>>, <<>>)
             ELSE Response(200,
                           FilterIncluded(docs2.val, docs1.val, FALSE),
                           docs1.val,
                           FilterIncluded(docs1.val, docs2.val, TRUE))

\* GET with the query parameters v1 and v2 (<<>> for a parameter that is
\* missing or empty)
GET(v1, v2) ==
    IF v1 = <<>> \/ v2 = <<>> THEN Response(400, <<>>, <<>>, <<>>)
    ELSE LET docs1 == getFolderDocs(v1)
             docs2 == getFolderDocs(v2)
         IN  IF docs1.err \/ docs2.err THEN Response(500, <<>>, <<>>, <<>>)
             ELSE Response(200,
                           FilterIncluded(docs2.val, docs1.val, FALSE),
                           FilterIncluded(docs1.val, docs2.val, FALSE),
                           FilterIncluded(docs1.val, docs2.val, TRUE))

----------------------------------------------------------------------------
(* diffText (components/VersionCompare) *)
(* A text is the list of its lines (split("\n") of a string has at least  *)
(* one element); a line is one token, "" the empty line.  Indices count   *)
(* from 0 as in the source.                                               *)

\* most lines of a text
MaxLines == 3

LineAlphabet == {"", "x", "y"}

Texts == UNION {[1..n -> LineAlphabet] : n \in 1..MaxLines}

\* lines[i]: Null is undefined
LineAt(lines, i) == IF i < Len(lines) THEN Some(lines[i + 1]) ELSE Null

\* a line that is defined and not empty
TruthyLine(l) == l # Null /\ l # Some("")

\* lines.includes(l), for l = lines[i] of the other text
IncludesLine(lines, l) == l # Null /\ \E k \in 1..Len(lines) : lines[k] = l[1]

\* l || ""
OrEmpty(l) == IF TruthyLine(l) THEN l[1] ELSE ""

\* the last branch writes its lines and moves neither index
MutIterateStalls(d) ==
    LET a == LineAt(d.aLines, d.i)
        b == LineAt(d.bLines, d.j)
    IN  IF a = b
        THEN [d EXCEPT !.out = Append(@, <<" ", OrEmpty(a)>>), !.i = @ + 1, !.j = @ + 1]
        ELSE IF TruthyLine(a) /\ ~IncludesLine(d.bLines, a)
        THEN [d EXCEPT !.out = Append(@, <<"-", a[1]>>), !.i = @ + 1]
        ELSE IF TruthyLine(b) /\ ~IncludesLine(d.aLines, b)
        THEN [d EXCEPT !.out = Append(@, <<"+", b[1]>>), !.j = @ + 1]
        ELSE [d EXCEPT !.out = @ \o <<<<"-", OrEmpty(a)>>, <<"+", OrEmpty(b)>>>>]

\* one iteration of the while loop on the locals d
Iterate(d) ==
    LET a == LineAt(d.aLines, d.i)
        b == LineAt(d.bLines, d.j)
    IN  IF a = b
        THEN [d EXCEPT !.out = Append(@, <<" ", OrEmpty(a)>>), !.i = @ + 1, !.j = @ + 1]
        ELSE IF TruthyLine(a) /\ ~IncludesLine(d.bLines, a)
        THEN [d EXCEPT !.out = Append(@, <<"-", a[1]>>), !.i = @ + 1]
        ELSE IF TruthyLine(b) /\ ~IncludesLine(d.aLines, b)
        THEN [d EXCEPT !.out = Append(@, <<"+", b[1]>>), !.j = @ + 1]
        ELSE [d EXCEPT !.out = @ \o <<<<"-", OrEmpty(a)>>, <<"+", OrEmpty(b)>>>>,
                       !.i = @ + 1, !.j = @ + 1]

\* i < aLines.length || j < bLines.length
LoopCondition(d) == d.i < Len(d.aLines) \/ d.j < Len(d.bLines)

\* diffText(a, b) has been called and stands before its loop
DiffInit ==
    /\ input = <<>>
    /\ output = NoResult
    /\ again = NoResult
    /\ fs = <<>>
    /\ req = <<>>
    /\ out = [kind |-> "idle"]
    /\ home = <<>>
    /\ service = <<>>
    /\ \E a \in Texts, b \in Texts :
          diff = [aLines |-> a, bLines |-> b, out |-> <<>>, i |-> 0, j |-> 0,
                  returned |-> FALSE]

\* the loop condition holds: the body runs once
DiffIterate ==
    /\ ~diff.returned
    /\ LoopCondition(diff)
    /\ diff' = Iterate(diff)
    /\ UNCHANGED <<input, output, again, fs, req, out, home, service>>

\* the loop condition fails: return out
DiffReturn ==
    /\ ~diff.returned
    /\ ~LoopCondition(diff)
    /\ diff' = [diff EXCEPT !.returned = TRUE]
    /\ UNCHANGED <<input, output, again, fs, req, out, home, service>>

DiffNext == DiffIterate \/ DiffReturn

DiffSpec == DiffInit /\ [][DiffNext]_vars

\* a call that has started keeps running
DiffFairSpec == DiffSpec /\ WF_vars(DiffNext)

----------------------------------------------------------------------------
(* The site: the documentation tree changes on disk, and requests are      *)
(* served from what is on disk at that moment.                             *)

\* deepest level of a node below docs: docs/<version>/<folder>/<file>
MaxDepth == 3

\* the paths of all nodes of a listing
RECURSIVE PathsOf(_, _)
PathsOf(entries, dir) ==
    UNION {{Append(dir, entries[i].name)}
              \cup PathsOf(entries[i].children, Append(dir, entries[i].name))
           : i \in 1..Len(entries)}

AllPaths == PathsOf(fs, <<>>)

DirPaths == {<<>>} \cup {p \in AllPaths : NodeAtFrom(fs, p).type = "dir"}

\* the nodes that can be created at a depth
NodesFor(depth) ==
    IF depth = 1 THEN {Dir(n, TRUE, <<>>) : n \in VersionNames}
    ELSE Documents
         \cup (IF depth < MaxDepth THEN {Dir(n, TRUE, <<>>) : n \in FolderNames} ELSE {})

InsertAt(seq, pos, x) == SubSeq(seq, 1, pos - 1) \o <<x>> \o SubSeq(seq, pos, Len(seq))

RemoveAt(seq, pos) == SubSeq(seq, 1, pos - 1) \o SubSeq(seq, pos + 1, Len(seq))

\* the listing with node inserted at position pos of the directory at dir
RECURSIVE InsertNode(_, _, _, _)
InsertNode(entries, dir, pos, node) ==
    IF dir = <<>> THEN InsertAt(entries, pos, node)
    ELSE [i \in 1..Len(entries) |->
            IF entries[i].name = Head(dir)
            THEN [entries[i] EXCEPT !.children = InsertNode(@, Tail(dir), pos, node)]
            ELSE entries[i]]

\* the listing without the node at path (and what is below it)
RECURSIVE RemoveNode(_, _)
RemoveNode(entries, path) ==
    IF Len(path) = 1
    THEN RemoveAt(entries,
                  FindFirst([ix \in 1..Len(entries) |-> entries[ix].name = path[1]]))
    ELSE [i \in 1..Len(entries) |->
            IF entries[i].name = Head(path)
            THEN [entries[i] EXCEPT !.children = RemoveNode(@, Tail(path))]
            ELSE entries[i]]

\* the listing with the directory at path made readable or unreadable
RECURSIVE SetReadable(_, _, _)
SetReadable(entries, path, b) ==
    [i \in 1..Len(entries) |->
        IF entries[i].name = Head(path)
        THEN (IF Len(path) = 1 THEN [entries[i] EXCEPT !.readable = b]
              ELSE [entries[i] EXCEPT !.children = SetReadable(@, Tail(path), b)])
        ELSE entries[i]]

Idle == req = <<>>

\* an author creates a directory or a file; readdir lists it at any position
Create ==
    /\ Idle
    /\ CountNodes(fs) < MaxNodes
    /\ \E dir \in DirPaths :
         /\ Len(dir) < MaxDepth
         /\ \E node \in NodesFor(Len(dir) + 1) :
              LET siblings == readdir(dir)
              IN  /\ ~siblings.err
                  /\ \A k \in 1..Len(siblings.val) : siblings.val[k].name # node.name
                  /\ \E pos \in 1..(Len(siblings.val) + 1) :
                       fs' = InsertNode(fs, dir, pos, node)
    /\ UNCHANGED <<input, output, again, req, out, home, service, diff>>

\* an author removes a directory (with what is below it) or a file
Remove ==
    /\ Idle
    /\ \E path \in AllPaths : fs' = RemoveNode(fs, path)
    /\ UNCHANGED <<input, output, again, req, out, home, service, diff>>

\* a folder of a version becomes unreadable (its permissions change, or it
\* is removed after its parent was listed), or readable again
Chmod ==
    /\ Idle
    /\ \E path \in AllPaths :
         /\ Len(path) = 2
         /\ NodeAtFrom(fs, path).type = "dir"
         /\ fs' = SetReadable(fs, path, ~NodeAtFrom(fs, path).readable)
    /\ UNCHANGED <<input, output, again, req, out, home, service, diff>>

\* the slug path the site publishes for a node, with the version segment as
\* named on disk (raw) or slugified
SlugPathOf(path, raw) ==
    [i \in 1..Len(path) |->
        IF i = 1 /\ raw THEN path[i]
        ELSE IF i = Len(path) THEN slugify(StripMd(path[i]))
        ELSE slugify(path[i])]

\* slug paths that name nothing on disk
StraySlugs ==
    {<<<<"v1">>, <<"nope">>>>, <<<<"nope">>, <<"a">>>>, <<<<"v1">>, <<"nope">>, <<"a">>>>}

\* the slug paths requested: those of the nodes on disk, and strays
RequestSlugs ==
    {SlugPathOf(p, raw) : p \in AllPaths, raw \in BOOLEAN} \cup StraySlugs

\* a browser requests /docs/<slug...>: DocPage serves it
RequestPage ==
    /\ Idle
    /\ \E slug \in RequestSlugs :
         /\ req' = [op |-> "DocPage", slug |-> slug]
         /\ out' = DocPage(slug)
    /\ UNCHANGED <<input, output, again, fs, home, service, diff>>

\* findMatchingFilePath(slug) on its own
CallFindMatchingFilePath ==
    /\ Idle
    /\ \E slug \in RequestSlugs :
         /\ req' = [op |-> "findMatchingFilePath", slug |-> slug]
         /\ out' = findMatchingFilePath(slug)
    /\ UNCHANGED <<input, output, again, fs, home, service, diff>>

\* getAllMarkdownSlugs(version) on its own
CallGetAllMarkdownSlugs ==
    /\ Idle
    /\ \E slug \in RequestSlugs :
         /\ req' = [op |-> "getAllMarkdownSlugs", slug |-> <<slug[1]>>]
         /\ out' = getAllMarkdownSlugs(slug[1])
    /\ UNCHANGED <<input, output, again, fs, home, service, diff>>

\* getPageNavigationChronological(slug) on its own
CallGetPageNavigation ==
    /\ Idle
    /\ \E slug \in RequestSlugs :
         /\ req' = [op |-> "getPageNavigationChronological", slug |-> slug]
         /\ out' = getPageNavigationChronological(slug)
    /\ UNCHANGED <<input, output, again, fs, home, service, diff>>

\* the section identifiers of `feature-card:` references: two of the table
\* (FolderNames holds the folder of one of them), and two that are not
SectionIds == {<<"user-guide">>, <<"api-reference">>, <<"nope">>, <<"constructor">>}

\* resolveFeatureCardLink(sectionId, version, folderTree) on its own, with
\* the folder tree DocPage built for the version
CallResolveFeatureCardLink ==
    /\ Idle
    /\ \E i \in 1..Len(fs), sectionId \in SectionIds :
         LET folderTree == getFolderTree(<<fs[i].name>>)
         IN  /\ ~folderTree.err
             /\ req' = [op |-> "resolveFeatureCardLink", slug |-> <<fs[i].name>>,
                        sectionId |-> sectionId]
             /\ out' = Return(resolveFeatureCardLink(sectionId, fs[i].name,
                                                     folderTree.val))
    /\ UNCHANGED <<input, output, again, fs, home, service, diff>>

\* the listing with the file at path replaced by file
RECURSIVE ReplaceFile(_, _, _)
ReplaceFile(entries, path, file) ==
    [i \in 1..Len(entries) |->
        IF entries[i].name = Head(path)
        THEN (IF Len(path) = 1 THEN file
              ELSE [entries[i] EXCEPT !.children = ReplaceFile(@, Tail(path), file)])
        ELSE entries[i]]

MdFilePaths == {p \in AllPaths : NodeAtFrom(fs, p).type = "file"
                                  /\ EndsWithMd(NodeAtFrom(fs, p).name)}

PointerKeys == {"next", "prev", "uiLink"}

\* what authors write as a pointer: nothing (null), the empty string, a
\* number, a literal href (one holds the marker, but not at its start), a
\* reference to a section of the table and one to an unknown section
PointerValues ==
    {<<>>, EmptyString, NonString,
     <<"/docs/", "v1", "/", "a">>,
     <<"/docs/", FeatureCardMarker, "user-guide">>,
     <<FeatureCardMarker, "user-guide">>,
     <<FeatureCardMarker, "nope">>}

\* the number of pointers the files of a listing define
RECURSIVE DefinedPointers(_)
DefinedPointers(entries) ==
    IF entries = <<>> THEN 0
    ELSE Cardinality({k \in PointerKeys : Get(Head(entries), k) # <<>>})
         + DefinedPointers(Head(entries).children)
         + DefinedPointers(Tail(entries))

\* the file with the pointer written as v; a pointer written as nothing
\* is `next:` with no value, and for prev and uiLink the key taken out
WritePointer(file, key, v) ==
    IF v = <<>> /\ key # "next" THEN Without(file, key) ELSE With(file, key, v)

\* an author writes next, prev or uiLink in the front matter of a file
EditPointer ==
    /\ Idle
    /\ \E path \in MdFilePaths, key \in PointerKeys, v \in PointerValues :
         /\ fs' = ReplaceFile(fs, path, WritePointer(NodeAtFrom(fs, path), key, v))
         /\ DefinedPointers(fs') <= MaxPointers
    /\ UNCHANGED <<input, output, again, req, out, home, service, diff>>

ContentKeys == {"title", "heading", "malformed"}

\* what a file can hold for a key: no title, an empty one or a title; no
\* `# ` heading in the body or one; a front-matter block that parses or
\* one that is not valid YAML
ContentValues(key) ==
    CASE key = "title" -> {<<>>, EmptyString, <<"Title">>}
      [] key = "heading" -> {<<>>, <<"Heading">>}
      [] OTHER -> {FALSE, TRUE}

\* the value that stands for a file without the key
Absent(key) == IF key = "malformed" THEN FALSE ELSE <<>>

\* an author rewrites the title, the first heading or the front-matter
\* block of a file
EditContent ==
    /\ Idle
    /\ \E path \in MdFilePaths, key \in ContentKeys :
         \E v \in ContentValues(key) :
            fs' = ReplaceFile(fs, path,
                              IF v = Absent(key)
                              THEN Without(NodeAtFrom(fs, path), key)
                              ELSE With(NodeAtFrom(fs, path), key, v))
    /\ UNCHANGED <<input, output, again, req, out, home, service, diff>>

\* a slug without the numeric prefix of its folder or file: 01-introduction
\* requested as introduction
Unprefixed(seg) ==
    IF Len(seg) >= 3 /\ IsDigits(seg[1]) /\ seg[2] = "-" THEN SubSeq(seg, 3, Len(seg))
    ELSE seg

\* findMatchingFilePath(slug) for the slug paths of the nodes on disk
\* written without numeric prefixes
CallFindMatchingFilePathUnprefixed ==
    /\ Idle
    /\ \E slug \in RequestSlugs :
         LET parts == [i \in 1..Len(slug) |-> Unprefixed(slug[i])]
         IN  /\ req' = [op |-> "findMatchingFilePath", slug |-> parts]
             /\ out' = findMatchingFilePath(parts)
    /\ UNCHANGED <<input, output, again, fs, home, service, diff>>

\* the slug path of a node with its last segment as the file is named on
\* disk (Overview for Overview.md), the directories in slug form
NamedSlugPathOf(path) ==
    [i \in 1..Len(path) |->
        IF i = Len(path) THEN StripMd(path[i]) ELSE slugify(path[i])]

\* findMatchingFilePath(slug) for slug paths that end in a name as on disk
CallFindMatchingFilePathAsNamed ==
    /\ Idle
    /\ \E path \in AllPaths :
         /\ req' = [op |-> "findMatchingFilePath", slug |-> NamedSlugPathOf(path)]
         /\ out' = findMatchingFilePath(NamedSlugPathOf(path))
    /\ UNCHANGED <<input, output, again, fs, home, service, diff>>

\* the response is delivered; nothing of the request is kept
Respond ==
    /\ ~Idle
    /\ req' = <<>>
    /\ out' = [kind |-> "idle"]
    /\ UNCHANGED <<input, output, again, fs, home, service, diff>>

Init ==
    /\ input = <<>>
    /\ output = NoResult
    /\ again = NoResult
    /\ fs = <<>>
    /\ req = <<>>
    /\ out = [kind |-> "idle"]
    /\ home = <<>>
    /\ service = <<>>
    /\ diff = <<>>

Next ==
    \/ Create
    \/ Remove
    \/ Chmod
    \/ RequestPage
    \/ CallFindMatchingFilePath
    \/ CallGetAllMarkdownSlugs
    \/ CallGetPageNavigation
    \/ Respond

Spec == Init /\ [][Next]_vars

\* the site seen through one operation: the tree changes on disk and only
\* findMatchingFilePath, respectively getPageNavigationChronological, is called
ResolveNext == Create \/ Remove \/ Chmod \/ CallFindMatchingFilePath \/ Respond

ResolveSpec == Init /\ [][ResolveNext]_vars

NavNext == Create \/ Remove \/ Chmod \/ CallGetPageNavigation \/ Respond

NavSpec == Init /\ [][NavNext]_vars

\* a version with the file a.md and, before or after it, the folder
\* `02_User Guide`, empty or with overview.md; authors edit the pointers of
\* the files and pages are requested
PointerTrees ==
    {<<Dir(<<"v1">>, TRUE, kids)>> :
        kids \in {<<File(<<"a", ".md">>, <<>>)>>}
                 \cup UNION {{<<File(<<"a", ".md">>, <<>>), Dir(UserGuideName, TRUE, sub)>>,
                              <<Dir(UserGuideName, TRUE, sub), File(<<"a", ".md">>, <<>>)>>}
                             : sub \in {<<>>, <<File(<<"overview", ".md">>, <<>>)>>}}}

PointerInit ==
    /\ input = <<>>
    /\ output = NoResult
    /\ again = NoResult
    /\ fs \in PointerTrees
    /\ req = <<>>
    /\ out = [kind |-> "idle"]
    /\ home = <<>>
    /\ service = <<>>
    /\ diff = <<>>

PointerNext == EditPointer \/ RequestPage \/ Respond

PointerSpec == PointerInit /\ [][PointerNext]_vars

\* a version with the files Overview.md and a.md, in either order; authors
\* edit their content and pages are requested
ContentTrees ==
    {<<Dir(<<"v1">>, TRUE, kids)>> :
        kids \in {<<File(<<"Overview", ".md">>, <<>>), File(<<"a", ".md">>, <<>>)>>,
                  <<File(<<"a", ".md">>, <<>>), File(<<"Overview", ".md">>, <<>>)>>}}

ContentInit ==
    /\ input = <<>>
    /\ output = NoResult
    /\ again = NoResult
    /\ fs \in ContentTrees
    /\ req = <<>>
    /\ out = [kind |-> "idle"]
    /\ home = <<>>
    /\ service = <<>>
    /\ diff = <<>>

ContentNext == EditContent \/ RequestPage \/ Respond

ContentSpec == ContentInit /\ [][ContentNext]_vars

\* the tree of the slug resolver's example: the folders `01_Introduction`
\* with intro.md and `02_Guide` with setup.md, listed in either order
IntroductionFolder ==
    Dir(<<"01", "_", "Introduction">>, TRUE, <<File(<<"intro", ".md">>, <<>>)>>)

GuideFolder == Dir(<<"02", "_", "Guide">>, TRUE, <<File(<<"setup", ".md">>, <<>>)>>)

ExampleTrees ==
    {<<Dir(v, TRUE, kids)>> :
        v \in VersionNames,
        kids \in {<<IntroductionFolder, GuideFolder>>, <<GuideFolder, IntroductionFolder>>}}

ExampleInit ==
    /\ input = <<>>
    /\ output = NoResult
    /\ again = NoResult
    /\ fs \in ExampleTrees
    /\ req = <<>>
    /\ out = [kind |-> "idle"]
    /\ home = <<>>
    /\ service = <<>>
    /\ diff = <<>>

ExampleNext ==
    \/ Remove
    \/ CallGetAllMarkdownSlugs
    \/ CallFindMatchingFilePathUnprefixed
    \/ Respond

ExampleSpec == ExampleInit /\ [][ExampleNext]_vars

\* a version holding up to three of the files a.md, a.MD and Overview.md,
\* listed in any order
FinalFiles ==
    {File(<<"a", ".md">>, <<>>), File(<<"a", ".MD">>, <<>>),
     File(<<"Overview", ".md">>, <<>>)}

FinalTrees ==
    {<<Dir(v, TRUE, kids)>> :
        v \in VersionNames,
        kids \in {k \in UNION {[1..n -> FinalFiles] : n \in 0..3} :
                     \A i, j \in 1..Len(k) : i # j => k[i] # k[j]}}

FinalInit ==
    /\ input = <<>>
    /\ output = NoResult
    /\ again = NoResult
    /\ fs \in FinalTrees
    /\ req = <<>>
    /\ out = [kind |-> "idle"]
    /\ home = <<>>
    /\ service = <<>>
    /\ diff = <<>>

FinalNext ==
    \/ Remove
    \/ CallFindMatchingFilePath
    \/ CallFindMatchingFilePathAsNamed
    \/ Respond

FinalSpec == FinalInit /\ [][FinalNext]_vars

\* what a version directory lists for the comparison: up to two of three
\* folders and a file, in any order
CompareEntries ==
    {Dir(n, TRUE, <<>>) : n \in FolderNames} \cup {File(<<"a", ".md">>, <<>>)}

CompareListings ==
    {k \in UNION {[1..n -> CompareEntries] : n \in 0..2} :
        \A i, j \in 1..Len(k) : i # j => k[i].name # k[j].name}

\* docs/ holds the versions v1 and V1
CompareTrees ==
    {<<Dir(<<"v1">>, TRUE, k1), Dir(<<"V1">>, TRUE, k2)>> :
        k1 \in CompareListings, k2 \in CompareListings}

CompareInit ==
    /\ input = <<>>
    /\ output = NoResult
    /\ again = NoResult
    /\ fs \in CompareTrees
    /\ req = <<>>
    /\ out = [kind |-> "idle"]
    /\ home = <<>>
    /\ service = <<>>
    /\ diff = <<>>

\* the values of a query parameter: none, a version of docs/, a name that
\* is not there
CompareParams == {<<>>, <<"nope">>} \cup VersionNames

\* a client requests /api/compare-versions?v1=..&v2=..
CallCompareVersions ==
    /\ Idle
    /\ \E v1 \in CompareParams, v2 \in CompareParams :
         /\ req' = [op |-> "compare-versions", v1 |-> v1, v2 |-> v2]
         /\ out' = GET(v1, v2)
    /\ UNCHANGED <<input, output, again, fs, home, service, diff>>

CompareNext == CallCompareVersions \/ Respond

CompareSpec == CompareInit /\ [][CompareNext]_vars

\* the tree changes on disk, every directory readable, and pages are
\* requested
PageNext == Create \/ Remove \/ RequestPage \/ Respond

PageSpec == Init /\ [][PageNext]_vars

\* the tree changes on disk, every directory readable, and only
\* findMatchingFilePath is called
TieNext == Create \/ Remove \/ CallFindMatchingFilePath \/ Respond

TieSpec == Init /\ [][TieNext]_vars

\* the tree changes on disk and only resolveFeatureCardLink is called; the
\* site starts empty, or with the folder `02_User Guide` nested in `10_Ref`
CardTrees ==
    {<<>>,
     <<Dir(<<"v1">>, TRUE,
           <<Dir(<<"10", "_", "Ref">>, TRUE,
                 <<Dir(UserGuideName, TRUE,
                       <<File(<<"overview", ".md">>, <<>>)>>)>>)>>)>>}

CardInit ==
    /\ input = <<>>
    /\ output = NoResult
    /\ again = NoResult
    /\ fs \in CardTrees
    /\ req = <<>>
    /\ out = [kind |-> "idle"]
    /\ home = <<>>
    /\ service = <<>>
    /\ diff = <<>>

CardNext == Create \/ Remove \/ CallResolveFeatureCardLink \/ Respond

CardSpec == CardInit /\ [][CardNext]_vars

----------------------------------------------------------------------------
(* Properties *)

\* the operation being served ("idle" between requests)
Op == IF Idle THEN "idle" ELSE req.op

\* the listing of the directory at path (the path names a readable directory)
Listing(path) == readdir(path).val

IsMdFileNode(e) == e.type = "file" /\ EndsWithMd(e.name)

\* the manual order of a directory: folders before files, each group by raw
\* name with numeric-aware comparison
Before(a, b) ==
    IF a.type # b.type THEN a.type = "dir" ELSE localeCompare(a.name, b.name) < 0

ManualOrder(entries) ==
    LET rank(i) == 1 + Cardinality({k \in 1..Len(entries) : Before(entries[k], entries[i])})
    IN  [r \in 1..Len(entries) |->
            entries[CHOOSE i \in 1..Len(entries) : rank(i) = r]]

\* the file paths of the manual depth-first traversal below dir
RECURSIVE ManualTraversal(_, _)
ManualTraversal(entries, dir) ==
    LET ordered == ManualOrder(entries)
        visit[i \in 0..Len(ordered)] ==
            IF i = 0 THEN <<>>
            ELSE visit[i - 1] \o
                 (IF ordered[i].type = "dir"
                  THEN ManualTraversal(ordered[i].children, Append(dir, ordered[i].name))
                  ELSE IF EndsWithMd(ordered[i].name)
                  THEN <<Append(dir, ordered[i].name)>>
                  ELSE <<>>)
    IN  visit[Len(ordered)]

RECURSIVE AllReadableIn(_)
AllReadableIn(entries) ==
    \A i \in 1..Len(entries) : entries[i].readable /\ AllReadableIn(entries[i].children)

AllReadable == AllReadableIn(fs)

VersionExists(version) ==
    \E i \in 1..Len(fs) : fs[i].name = version /\ fs[i].type = "dir"

\* C1: every file getAllMarkdownSlugs emits with slug path P is the file
\* findMatchingFilePath(P) returns, for every tree.
C1_RoundTrip ==
    Op = "getAllMarkdownSlugs" /\ ~out.err =>
        \A i \in 1..Len(out.val) :
            findMatchingFilePath(out.val[i].slug) = Return(out.val[i].filePath)

RECURSIVE NavOrdered(_)
NavOrdered(items) ==
    /\ \A i \in 1..(Len(items) - 1) :
          \/ items[i].type = "folder" /\ items[i + 1].type = "file"
          \/ /\ items[i].type = items[i + 1].type
             /\ localeCompare(items[i].title, items[i + 1].title) < 0
    /\ \A i \in 1..Len(items) : NavOrdered(items[i].items)

C5_SidebarOrder ==
    Op = "DocPage" /\ out.kind = "page" => NavOrdered(out.sidebar)

\* the flattened sequence of the version of a slug path
Flattened(slug) == getAllMarkdownSlugs(slug[1]).val

\* the neighbours the claim names for index i of the flattened sequence
NeighboursAt(allFiles, i) ==
    [previousPage |-> IF i = 1 THEN Null ELSE Some(PageLink(allFiles[i - 1])),
     nextPage |-> IF i = Len(allFiles) THEN Null ELSE Some(PageLink(allFiles[i + 1]))]

IsFirstMatch(dir, name, seg) ==
    LET entries == Listing(dir)
    IN  \E i \in 1..Len(entries) :
          /\ entries[i].name = name
          /\ entries[i].type = "dir"
          /\ slugify(name) = seg
          /\ \A k \in 1..(i - 1) :
                ~(entries[k].type = "dir" /\ slugify(entries[k].name) = seg)

\* dir is the directory reached by the first k segments of slug, each step
\* into the first matching directory, every directory on the way readable
ReachedBy(dir, slug, k) ==
    /\ Len(dir) = k
    /\ k < Len(slug)
    /\ \A j \in 1..k : IsFirstMatch(SubSeq(dir, 1, j - 1), dir[j], slug[j])
    /\ ~readdir(dir).err

\* the slug path breaks at a non-final segment: the directory reached so
\* far lists no directory whose slug is the next segment
BrokenAt(dir, slug) ==
    /\ Len(dir) + 1 < Len(slug)
    /\ ReachedBy(dir, slug, Len(dir))
    /\ \A i \in 1..Len(Listing(dir)) :
          ~(Listing(dir)[i].type = "dir"
            /\ slugify(Listing(dir)[i].name) = slug[Len(dir) + 1])

\* C7: when a non-final segment has no matching directory in the current
\* directory, findMatchingFilePath returns null and does not throw;
\* otherwise it descends into the (first) matching directory.
C7_BrokenPathIsNull ==
    Op = "findMatchingFilePath" =>
        /\ ((\E dir \in DirPaths : BrokenAt(dir, req.slug)) => out = Return(Null))
        /\ (~out.err /\ out.val # Null =>
               /\ Len(out.val) = Len(req.slug)
               /\ \A j \in 1..(Len(req.slug) - 1) :
                     IsFirstMatch(SubSeq(out.val, 1, j - 1), out.val[j], req.slug[j]))

\* a path that breaks at its second segment, below an existing version
C7_Witness ==
    /\ Op = "findMatchingFilePath"
    /\ \E dir \in DirPaths : Len(dir) = 1 /\ BrokenAt(dir, req.slug)
    /\ out = Return(Null)

\* a file of the tree is published under the slug path
Published(slug) ==
    \E p \in AllPaths :
        /\ IsMdFileNode(NodeAtFrom(fs, p))
        /\ \E raw \in BOOLEAN : SlugPathOf(p, raw) = slug

\* C8: a page request whose version directory does not exist, whose
\* document does not exist or whose path is broken ends in notFound(),
\* never in an uncaught error.
C8_UniformNotFound ==
    Op = "DocPage" /\ AllReadable /\ (~VersionExists(req.slug[1]) \/ ~Published(req.slug))
        => out.kind = "notFound"

\* the tree with every unreadable directory taken as empty
RECURSIVE UnreadableAsEmpty(_)
UnreadableAsEmpty(entries) ==
    [i \in 1..Len(entries) |->
        IF entries[i].type = "dir" /\ ~entries[i].readable
        THEN Dir(entries[i].name, TRUE, <<>>)
        ELSE [entries[i] EXCEPT !.children = UnreadableAsEmpty(@)]]

\* C9: in a tree walk an unreadable subdirectory contributes an empty
\* subtree; the error is not propagated and the rest is still returned.
C9_UnreadableIsEmpty ==
    /\ (Op = "getAllMarkdownSlugs" /\ VersionExists(req.slug[1]) =>
           out = WalkSlugs(ReadDirFrom(UnreadableAsEmpty(fs), req.slug).val,
                           req.slug, req.slug))
    /\ (Op = "DocPage" /\ VersionExists(req.slug[1])
           /\ ~findMatchingFilePath(req.slug).err
        => out.kind # "error")

\* C10: with next = "feature-card:user-guide" in the front matter and a
\* version root holding folder `02_User Guide` with the one file
\* overview.md, nextPage is {href: /docs/<version>/user-guide/overview,
\* title: "User Guide"}.
C10_FeatureCardExample ==
    Op = "DocPage" /\ out.kind = "page"
      /\ NodeAtFrom(fs, out.doc[1].file).next = <<FeatureCardMarker, "user-guide">>
      /\ (\E i \in 1..Len(Listing(<<req.slug[1]>>)) :
            /\ Listing(<<req.slug[1]>>)[i].name = UserGuideName
            /\ Len(Listing(<<req.slug[1]>>)[i].children) = 1
            /\ Listing(<<req.slug[1]>>)[i].children[1].name = <<"overview", ".md">>)
    => /\ out.doc[1].nextPage =
            Some(Link(<<"/docs/">> \o req.slug[1]
                         \o <<"/", "user", "-", "guide", "/", "overview">>,
                      <<"User Guide">>))
       /\ out.nextPage = out.doc[1].nextPage

\* the identifiers of the fixed section table
SectionTable ==
    {<<"platform-introduction">>, <<"user-guide">>, <<"api-reference">>,
     <<"examples-tutorials">>, <<"development-guide">>, <<"gcp-feature-in-depth">>}

\* the number of File nodes in a list of tree nodes and below them
RECURSIVE FileNodes(_)
FileNodes(nodes) ==
    IF nodes = <<>> THEN 0
    ELSE (IF Head(nodes).type = "file" THEN 1 ELSE FileNodes(Head(nodes).children))
         + FileNodes(Tail(nodes))

\* the folder tree of the version of the request being served
TreeOfRequest == getFolderTree(<<req.slug[1]>>).val

\* the indices of the folders at the tree root whose slug is the folder
\* slug of the section
RootMatches(tree, sectionId) ==
    {i \in 1..Len(tree) :
        tree[i].type = "folder" /\ slugify(tree[i].name) = sectionSlugMap(sectionId)}

FirstOf(S) == CHOOSE i \in S : \A k \in S : i <= k

\* the three cases of C11 in which there is nothing to link to; the
\* matching folder is the first one at the root when several match
NothingToLink(tree, sectionId) ==
    \/ sectionId \notin SectionTable
    \/ RootMatches(tree, sectionId) = {}
    \/ FileNodes(tree[FirstOf(RootMatches(tree, sectionId))].children) = 0

\* C11: resolveFeatureCardLink returns null, and raises no error, when the
\* section identifier is not in the section table, when no folder at the
\* tree root has the section's folder slug, or when the matching folder has
\* no file below it; in every other case it returns a {href, title}.
C11_NullExactlyWhenNothingToLink ==
    Op = "resolveFeatureCardLink" =>
        /\ ~out.err
        /\ (out.val = Null <=> NothingToLink(TreeOfRequest, req.sectionId))
        /\ (out.val # Null =>
               /\ DOMAIN out.val[1] = {"href", "title"}
               /\ out.val[1].title = sectionTitleMap(req.sectionId)
               /\ SubSeq(out.val[1].href, 1, Len(req.slug[1]) + 2)
                     = <<"/docs/">> \o req.slug[1] \o <<"/">>)

\* a known section whose folder is at the root and holds no markdown file
C11_Witness ==
    /\ Op = "resolveFeatureCardLink"
    /\ req.sectionId \in SectionTable
    /\ RootMatches(TreeOfRequest, req.sectionId) # {}
    /\ out = Return(Null)

\* the file a page request rendered
RenderedFile == NodeAtFrom(fs, out.doc[1].file)

\* the field of the document record and the generic title of a pointer
RecordField(key) ==
    CASE key = "next" -> "nextPage" [] key = "prev" -> "previousPage" [] OTHER -> "uiLink"

GenericTitle(key) ==
    CASE key = "next" -> <<"Next">> [] key = "prev" -> <<"Previous">>
      [] OTHER -> <<"UI Link">>

IsSymbolic(v) == v # <<>> /\ v # NonString /\ Head(v) = FeatureCardMarker

\* C12 as stated: an undefined pointer yields null; a string that does not
\* start with `feature-card:` is the href, unchanged, with the generic
\* title "Next", "Previous" or "UI Link"; only a string that starts with
\* `feature-card:` is resolved symbolically.
C12_PointersAsStated ==
    Op = "DocPage" /\ out.kind = "page" =>
        \A key \in PointerKeys :
            LET v == Get(RenderedFile, key)
                r == out.doc[1][RecordField(key)]
            IN  /\ (v = <<>> => r = Null)
                /\ (v # <<>> /\ v # NonString /\ ~IsSymbolic(v)
                      => r = Some(Link(v, GenericTitle(key))))
                /\ (IsSymbolic(v)
                      => r = resolveFeatureCardLink(Tail(v), req.slug[1], out.tree))

\* C12 amended: a pointer that is undefined, the empty string or not a
\* string yields null; a non-empty string that does not start with
\* `feature-card:` is the href, unchanged, with the generic title; only a
\* string that starts with `feature-card:` is resolved symbolically.
C12_PointersNonEmpty ==
    Op = "DocPage" /\ out.kind = "page" =>
        \A key \in PointerKeys :
            LET v == Get(RenderedFile, key)
                r == out.doc[1][RecordField(key)]
            IN  /\ (v \in {<<>>, EmptyString, NonString} => r = Null)
                /\ (v \notin {<<>>, EmptyString, NonString} /\ ~IsSymbolic(v)
                      => r = Some(Link(v, GenericTitle(key))))
                /\ (IsSymbolic(v)
                      => r = resolveFeatureCardLink(Tail(v), req.slug[1], out.tree))

\* a page whose file has a literal href and a symbolic reference that
\* resolves to a link
C12_Witness ==
    /\ Op = "DocPage"
    /\ out.kind = "page"
    /\ \E key \in PointerKeys :
          /\ Get(RenderedFile, key) = <<"/docs/", FeatureCardMarker, "user-guide">>
          /\ out.doc[1][RecordField(key)]
                = Some(Link(<<"/docs/", FeatureCardMarker, "user-guide">>,
                            GenericTitle(key)))
    /\ \E key \in PointerKeys :
          /\ IsSymbolic(Get(RenderedFile, key))
          /\ out.doc[1][RecordField(key)] # Null
          /\ out.doc[1][RecordField(key)][1].title = <<"User Guide">>

\* the file the slug path of the request resolves to
ResolvedFile == NodeAtFrom(fs, findMatchingFilePath(req.slug).val)

Resolves == ~findMatchingFilePath(req.slug).err /\ findMatchingFilePath(req.slug).val # Null

\* the file's name, as on disk or without its extension
FileNames(file) == {file.name, StripMd(file.name)}

\* C13: the title of a document record is the front-matter title when
\* there is one, otherwise the text of the first `#` heading of the body,
\* otherwise the file's name.
C13_TitleFallbacks ==
    Op = "DocPage" /\ out.kind = "page" =>
        IF Truthy(Get(RenderedFile, "title"))
        THEN out.doc[1].title = RenderedFile.title
        ELSE IF Truthy(Get(RenderedFile, "heading"))
        THEN out.doc[1].title = RenderedFile.heading
        ELSE out.doc[1].title \in FileNames(RenderedFile)

\* the file has no front matter, or a front-matter block that does not parse
NoUsableFrontMatter(file) ==
    \/ "malformed" \in DOMAIN file /\ file.malformed
    \/ \A key \in {"title"} \cup PointerKeys : Get(file, key) = <<>>

\* C14: a request for a markdown file whose front matter is malformed or
\* missing never fails: getDocContent returns a document, not null and not
\* an error, and the page is rendered; the document's title is the first
\* `#` heading when the body has one (the fallback after it is what C13
\* states).
C14_FrontMatterNeverFails ==
    Op = "DocPage" /\ Resolves /\ NoUsableFrontMatter(ResolvedFile) =>
        /\ out.kind = "page"
        /\ out.doc # Null
        /\ (Truthy(Get(ResolvedFile, "heading"))
              => out.doc[1].title = ResolvedFile.heading)

\* the version of the request holds exactly the two folders of the example
IsExampleTree ==
    /\ VersionExists(req.slug[1])
    /\ Len(Listing(<<req.slug[1]>>)) = 2
    /\ {Listing(<<req.slug[1]>>)[i] : i \in 1..2} = {IntroductionFolder, GuideFolder}

\* C15: for the tree with folder `01_Introduction/` holding intro.md and
\* folder `02_Guide/` holding setup.md, the flattened sequence is
\* [intro, setup], and the slug path ["introduction", "intro"] below the
\* version resolves to the file intro.md.
C15_IntroductionExample ==
    /\ (Op = "getAllMarkdownSlugs" /\ IsExampleTree /\ ~out.err =>
           [i \in 1..Len(out.val) |-> out.val[i].title] = <<<<"intro">>, <<"setup">>>>)
    /\ (Op = "findMatchingFilePath" /\ IsExampleTree
           /\ req.slug = <<req.slug[1], <<"introduction">>, <<"intro">>>>
        => out = Return(<<req.slug[1], IntroductionFolder.name, <<"intro", ".md">>>>))

\* the file has extension `.md` and its slugified base name is the segment
FinalMatch(f, seg) ==
    f.type = "file" /\ EndsWithMd(f.name) /\ slugify(StripMd(f.name)) = seg

\* C16: in the directory the leading segments resolve to, findMatchingFilePath
\* returns a file if and only if the file has extension `.md` and its
\* slugified base name equals the final segment of the request, compared
\* exactly as the directory segments are.
C16_FinalSegmentExact ==
    Op = "findMatchingFilePath" /\ ~out.err =>
        \A dir \in DirPaths :
            ReachedBy(dir, req.slug, Len(req.slug) - 1) =>
                /\ (out.val # Null =>
                       /\ SubSeq(out.val, 1, Len(dir)) = dir
                       /\ FinalMatch(NodeAtFrom(fs, out.val), req.slug[Len(req.slug)]))
                /\ ((\E i \in 1..Len(Listing(dir)) :
                         FinalMatch(Listing(dir)[i], req.slug[Len(req.slug)]))
                     => out.val # Null)

\* the entry matches segment j of the slug path the way the resolver
\* matches at that level: a directory by its slug before the final
\* segment, a markdown file by the slug of its base name at the final one
MatchesLevel(e, slug, j) ==
    IF j < Len(slug)
    THEN e.type = "dir" /\ slugify(e.name) = slug[j]
    ELSE /\ e.type = "file"
         /\ EndsWithMd(ToLowerCase(e.name))
         /\ slugify(StripMd(e.name)) = slugify(slug[j])

\* the indices of the entries of the listing of dir that match segment j
Candidates(dir, slug, j) ==
    {i \in 1..Len(Listing(dir)) : MatchesLevel(Listing(dir)[i], slug, j)}

\* C17: when several entries of one directory slugify to the same token,
\* the resolver takes at every level the first matching entry in listing
\* order and never a later one.
C17_FirstMatchWins ==
    Op = "findMatchingFilePath" /\ ~out.err /\ out.val # Null =>
        /\ Len(out.val) = Len(req.slug)
        /\ \A j \in 1..Len(req.slug) :
              LET dir == SubSeq(out.val, 1, j - 1)
                  first == FirstOf(Candidates(dir, req.slug, j))
              IN  /\ Candidates(dir, req.slug, j) # {}
                  /\ Listing(dir)[first].name = out.val[j]

\* a resolved request with two matching entries at its last level and two
\* at an earlier one
C17_Witness ==
    /\ Op = "findMatchingFilePath"
    /\ ~out.err
    /\ out.val # Null
    /\ Cardinality(Candidates(SubSeq(out.val, 1, Len(out.val) - 1), req.slug,
                               Len(req.slug))) = 2
    /\ \E j \in 1..(Len(req.slug) - 1) :
          Cardinality(Candidates(SubSeq(out.val, 1, j - 1), req.slug, j)) = 2

\* C18: within a version, any two names at the same level slugify to
\* distinct tokens, so no two files of the version's flattened sequence
\* have the same slug path.
C18_SlugUniqueness ==
    Op = "getAllMarkdownSlugs" /\ ~out.err =>
        /\ \A dir \in DirPaths :
              Len(dir) >= 1 /\ dir[1] = req.slug[1] /\ ~readdir(dir).err =>
                  \A i, k \in 1..Len(Listing(dir)) :
                      i # k => slugify(Listing(dir)[i].name) # slugify(Listing(dir)[k].name)
        /\ \A i, k \in 1..Len(out.val) : i # k => out.val[i].slug # out.val[k].slug

\* the paths of the File nodes of a list of tree nodes, depth first with
\* the children in order; dir is the path of the nodes' parent
RECURSIVE TreeFilePaths(_, _)
TreeFilePaths(nodes, dir) ==
    IF nodes = <<>> THEN <<>>
    ELSE (IF Head(nodes).type = "file" THEN <<Append(dir, Head(nodes).name)>>
          ELSE TreeFilePaths(Head(nodes).children, Append(dir, Head(nodes).name)))
         \o TreeFilePaths(Tail(nodes), dir)

\* the link under which the site serves the file at a path below a version
\* (the href the Sidebar gives it), with a title
LinkOfFile(version, path, title) ==
    Link(<<"/docs/">> \o version \o <<"/">>
            \o Join([i \in 1..Len(path) |->
                        IF i = Len(path) THEN slugify(StripMd(path[i]))
                        ELSE slugify(path[i])], "/"),
         title)

\* C20: for a section of the table, resolveFeatureCardLink looks for the
\* section's folder among the nodes at the tree root only, and returns the
\* link of the first File node of a depth-first, children-in-order
\* traversal of that folder's subtree.
C20_FirstFileOfRootFolder ==
    Op = "resolveFeatureCardLink" /\ req.sectionId \in SectionTable =>
        LET tree == TreeOfRequest
            hits == RootMatches(tree, req.sectionId)
            files == TreeFilePaths(tree[FirstOf(hits)].children,
                                   <<tree[FirstOf(hits)].name>>)
        IN  out.val = IF hits = {} \/ files = <<>> THEN Null
                      ELSE Some(LinkOfFile(req.slug[1], Head(files),
                                           sectionTitleMap(req.sectionId)))

\* href.split("/") on the token view: the segments between the "/" tokens
\* of s; cur is the segment being read
RECURSIVE SplitSlash(_, _)
SplitSlash(s, cur) ==
    IF s = <<>> THEN <<cur>>
    ELSE IF Head(s) = "/" THEN <<cur>> \o SplitSlash(Tail(s), <<>>)
    ELSE SplitSlash(Tail(s), Append(cur, Head(s)))

\* the slug path a link leads to: the href without its "/docs/" prefix,
\* split on "/"
HrefSlug(href) ==
    IF href # <<>> /\ Head(href) = "/docs/" THEN SplitSlash(Tail(href), <<>>)
    ELSE SplitSlash(href, <<>>)

\* C21: every non-null link of resolveFeatureCardLink is resolvable: the
\* slug path of its href is resolved by findMatchingFilePath, on the same
\* file system, to the first file under the section's folder.
C21_CardLinkResolves ==
    Op = "resolveFeatureCardLink" /\ out.val # Null =>
        LET tree == TreeOfRequest
            hits == RootMatches(tree, req.sectionId)
            files == TreeFilePaths(tree[FirstOf(hits)].children,
                                   <<tree[FirstOf(hits)].name>>)
        IN  /\ hits # {}
            /\ files # <<>>
            /\ findMatchingFilePath(HrefSlug(out.val[1].href))
                   = Return(req.slug \o Head(files))


\* C22: every slug path that findMatchingFilePath resolves to a file is an
\* element of the flattened sequence of its version, so that
\* getPageNavigationChronological finds it (findIndex is not -1).
C22_ResolvedIsListed ==
    Op = "findMatchingFilePath" /\ ~out.err /\ out.val # Null =>
        /\ ~getAllMarkdownSlugs(req.slug[1]).err
        /\ SlugIndex(Flattened(req.slug), req.slug) # 0


\* no two entries of one directory have the same slug, at any level from
\* docs down
RECURSIVE NoSiblingCollisions(_)
NoSiblingCollisions(entries) ==
    /\ \A i, k \in 1..Len(entries) :
          i # k => slugify(entries[i].name) # slugify(entries[k].name)
    /\ \A i \in 1..Len(entries) : NoSiblingCollisions(entries[i].children)

\* the File items of a navigation, each with its href and the path of the
\* file it stands for: the titles of the folders above it and its own title
\* with the extension the Sidebar stripped; dir is the path of the parent
RECURSIVE NavFiles(_, _)
NavFiles(items, dir) ==
    IF items = <<>> THEN <<>>
    ELSE (IF Head(items).type = "file"
          THEN <<[href |-> Head(items).href,
                  path |-> Append(dir, Head(items).title \o <<".md">>)]>>
          ELSE NavFiles(Head(items).items, Append(dir, Head(items).title)))
         \o NavFiles(Tail(items), dir)

\* C23: in a tree without sibling slug collisions, every href the Sidebar
\* generates for a File node resolves through findMatchingFilePath to
\* exactly that file.
C23_SidebarLinksResolve ==
    Op = "DocPage" /\ out.kind = "page" /\ NoSiblingCollisions(fs) =>
        LET links == NavFiles(out.sidebar, <<req.slug[1]>>)
        IN  \A i \in 1..Len(links) :
               /\ links[i].path \in AllPaths
               /\ findMatchingFilePath(HrefSlug(links[i].href)) = Return(links[i].path)

\* a page whose Sidebar links a file inside a folder that is not named in
\* slug form, next to a file at the root
C23_Witness ==
    /\ Op = "DocPage"
    /\ out.kind = "page"
    /\ NoSiblingCollisions(fs)
    /\ \E i, k \in 1..Len(out.sidebar) :
          /\ out.sidebar[i].type = "file"
          /\ out.sidebar[k].type = "folder"
          /\ slugify(out.sidebar[k].title) # out.sidebar[k].title
          /\ out.sidebar[k].items # <<>>


\* the front-matter key behind a rendered link
PointerKeyOf(field) == IF field = "nextPage" THEN "next" ELSE "prev"

\* the chronological neighbour of the requested page on the side of field
\* (none for a page that is not in the flattened sequence)
NeighbourOf(field) ==
    LET i == SlugIndex(Flattened(req.slug), req.slug)
    IN  IF i = 0 THEN Null ELSE NeighboursAt(Flattened(req.slug), i)[field]

\* C24: of the rendered previous and next links, a front-matter pointer
\* that resolves to a link goes before the chronological neighbour; the
\* neighbour is used exactly when the pointer is absent or resolves to
\* null; and no link is shown only when both are null.
C24_PointerBeforeNeighbour ==
    Op = "DocPage" /\ out.kind = "page" =>
        \A field \in {"previousPage", "nextPage"} :
            LET v == Get(RenderedFile, PointerKeyOf(field))
                pointer == out.doc[1][field]
                shown == out[field]
            IN  /\ (v = <<>> => pointer = Null)
                /\ (pointer # Null => shown = pointer)
                /\ (pointer = Null => shown = NeighbourOf(field))
                /\ (shown = Null <=> pointer = Null /\ NeighbourOf(field) = Null)

\* a page with a chronological neighbour and a front-matter pointer to
\* another link on the same side, and the pointer's link is shown
C24_Witness ==
    /\ Op = "DocPage"
    /\ out.kind = "page"
    /\ \E field \in {"previousPage", "nextPage"} :
          /\ out.doc[1][field] # Null
          /\ NeighbourOf(field) # Null
          /\ out.doc[1][field] # NeighbourOf(field)
          /\ out[field] = out.doc[1][field]


\* the places of the versions released by today in a result
Released(vs) == {i \in 1..Len(vs) : vs[i].releaseDate <= input.today}

\* the greatest element of a non-empty set of numbers
Last(S) == CHOOSE i \in S : \A k \in S : k <= i

\* C25: fetchVersionsWithStatus returns the versions of versions.json in
\* ascending order of release date; the version with the latest release
\* date not after today is the only current one, the one right after it
\* the only one in development, every earlier one previous and every later
\* one future; each version has exactly one status.
C25_VersionStatuses ==
    output # <<>> =>
        LET vs == output
        IN  /\ Len(vs) = Len(input.data)
            /\ \A i \in 1..Len(input.data) :
                  Cardinality({k \in 1..Len(vs) :
                      /\ vs[k].version = input.data[i].version
                      /\ vs[k].releaseDate = input.data[i].releaseDate
                      /\ vs[k].status \in {"current", "development", "previous", "future"}})
                    = 1
            /\ \A i, k \in 1..Len(vs) : i < k => vs[i].releaseDate <= vs[k].releaseDate
            /\ Released(vs) = {} => \A i \in 1..Len(vs) : vs[i].status # "current"
            /\ Released(vs) # {} =>
                  LET c == Last(Released(vs))
                  IN  /\ \A i \in 1..Len(vs) : vs[i].releaseDate <= input.today
                                                  => vs[i].releaseDate <= vs[c].releaseDate
                      /\ \A i \in 1..Len(vs) :
                            /\ vs[i].status = "current" <=> i = c
                            /\ vs[i].status = "development" <=> i = c + 1
                            /\ i < c => vs[i].status = "previous"
                            /\ i > c + 1 => vs[i].status = "future"

\* versions.json out of order, with a version released today, one before
\* and one after
C25_Witness ==
    /\ output # <<>>
    /\ \E i, k \in 1..Len(input.data) :
          i < k /\ input.data[i].releaseDate > input.data[k].releaseDate
    /\ \E i \in 1..Len(output) :
          output[i].status = "current" /\ output[i].releaseDate = input.today
    /\ {"previous", "development"} \subseteq {output[i].status : i \in 1..Len(output)}


\* the link r of a navigation result points to the document f
PointsTo(r, f) == r # Null /\ r[1].href = PageLink(f).href

\* C26: chronological navigation is symmetric: for any two documents A and
\* B of one version, on the same file system, the nextPage of A points to B
\* if and only if the previousPage of B points to A.
C26_NavigationSymmetric ==
    Op = "getPageNavigationChronological" /\ ~out.err =>
        LET files == Flattened(req.slug)
        IN  \A a, b \in 1..Len(files) :
               PointsTo(getPageNavigationChronological(files[a].slug).val.nextPage, files[b])
               <=> PointsTo(getPageNavigationChronological(files[b].slug).val.previousPage,
                            files[a])


\* C27: whatever versions are selected and in whatever order the fetches
\* settle, once no fetch is in flight (and none has failed since the last
\* one started) the sections and the links in state are those of the
\* selected version: the initial data for the initial version, the fetched
\* data of the version otherwise.
C27_SettledDataIsOfSelectedVersion ==
    InFlight = 0 /\ home.error = Null =>
        /\ home.documentationSections = SectionsOf(home.selectedVersion)
        /\ home.seeAlsoLinks = SeeAlsoOf(home.selectedVersion)


\* all items of a navigation, parents before their children, in order
RECURSIVE AllItems(_)
AllItems(items) ==
    IF items = <<>> THEN <<>>
    ELSE <<Head(items)>> \o AllItems(Head(items).children) \o AllItems(Tail(items))

\* the subsequence of the file items
RECURSIVE FilesOf(_)
FilesOf(items) ==
    IF items = <<>> THEN <<>>
    ELSE (IF Head(items).type = "file" THEN <<Head(items)>> ELSE <<>>) \o FilesOf(Tail(items))

\* some init() call has returned
SomeReturned(s) == \E c \in Calls : s.pc[c] \in {"returned", "returnedEarly"}

\* C28: for any interleaving of concurrent init() calls, after any of them
\* has returned flatItems is the depth-first list of the file items of the
\* loaded configuration, no item twice; ready never goes back to false;
\* and an init() called once ready is true changes nothing.
C28_InitUnderConcurrency ==
    [][/\ SomeReturned(service') =>
              /\ service'.flatItems = FilesOf(AllItems(service'.config.navigation))
              /\ \A i, k \in 1..Len(service'.flatItems) :
                    i # k => service'.flatItems[i].id # service'.flatItems[k].id
       /\ service.ready => service'.ready
       /\ \A c \in Calls :
             service.ready /\ service.pc[c] = "idle" /\ service'.pc[c] # "idle" =>
                 /\ service'.pc[c] = "returnedEarly"
                 /\ service'.config = service.config
                 /\ service'.flatItems = service.flatItems
                 /\ service'.ready]_vars

\* two calls that both loaded and flattened a nested configuration, and a
\* third that was made once ready was true
C28_Witness ==
    /\ service # <<>>
    /\ \E c, e \in Calls : c # e /\ service.pc[c] = "returned" /\ service.pc[e] = "returned"
    /\ \E c \in Calls : service.pc[c] = "returnedEarly"
    /\ Len(service.flatItems) >= 3
    /\ \E i \in 1..Len(service.config.navigation) :
          service.config.navigation[i].type = "folder"


\* the set of the elements of a list
Elements(list) == {list[i] : i \in 1..Len(list)}

\* no element is in the list twice
NoRepeat(list) == \A i, k \in 1..Len(list) : i # k => list[i] # list[k]

\* the names of the folders docs/<version> lists
FolderNamesOf(version) ==
    {Listing(<<version>>)[i].name :
        i \in {k \in 1..Len(Listing(<<version>>)) : Listing(<<version>>)[k].type = "dir"}}

\* C29: GET /api/compare-versions with v1 and v2 both readable answers with
\* lists such that removed and unchanged partition the folder names of v1,
\* added and unchanged partition the folder names of v2, and no name is
\* both added and removed; comparing a version with itself gives empty
\* added and removed.
C29_ComparePartitions ==
    Op = "compare-versions" /\ req.v1 # <<>> /\ req.v2 # <<>>
        /\ ~readdir(<<req.v1>>).err /\ ~readdir(<<req.v2>>).err =>
        LET added == Elements(out.added)
            removed == Elements(out.removed)
            unchanged == Elements(out.unchanged)
        IN  /\ out.status = 200
            /\ NoRepeat(out.added) /\ NoRepeat(out.removed) /\ NoRepeat(out.unchanged)
            /\ removed \cup unchanged = FolderNamesOf(req.v1)
            /\ removed \cap unchanged = {}
            /\ added \cup unchanged = FolderNamesOf(req.v2)
            /\ added \cap unchanged = {}
            /\ added \cap removed = {}
            /\ (req.v1 = req.v2 => out.added = <<>> /\ out.removed = <<>>)

\* a comparison of two versions with a folder only in the first, one only
\* in the second and one in both
C29_Witness ==
    /\ Op = "compare-versions"
    /\ out.status = 200
    /\ out.added # <<>>
    /\ out.removed # <<>>
    /\ out.unchanged # <<>>


\* C30: diffText(a, b) terminates for every pair of texts: every iteration
\* of its loop strictly increases at least one of the indices i and j,
\* also when one of them is past the end of its text, and the call returns.
C30_DiffTextTerminates ==
    /\ [][~diff'.returned => diff'.i > diff.i \/ diff'.j > diff.j]_vars
    /\ <>(diff.returned)

\* a call that has returned after an iteration that began with i past the
\* end of a
C30_Witness ==
    /\ diff # <<>>
    /\ diff.returned
    /\ diff.i > Len(diff.aLines)
    /\ diff.j = Len(diff.bLines)


====
